---- MODULE Spec2Model ----
(***************************************************************************)
(* A model of the text frontend of tiro-tts: the grapheme-to-phoneme       *)
(* translators (src/src/frontend/grapheme_to_phoneme.py) and the           *)
(* tokenizer / normalizers (src/src/frontend/normalization.py).            *)
(*                                                                         *)
(* A Python str is a sequence of characters; a character is a one-element  *)
(* atom written as a TLA+ string.  "th" and "dh" stand for the two-byte    *)
(* letters U+00FE / U+00F0.  A phone is a str, a PhoneSeq a sequence of    *)
(* phones.                                                                 *)
(***************************************************************************)
EXTENDS Integers, Sequences, FiniteSets, TLC

VARIABLES
    \* EmbeddedPhonemeTranslatorBase.translate, applied to one input
    e_items, e_text, e_tr, e_alphabet, e_pc, e_result, e_log,
    \* ComposedTranslator: construction and the loop of translate
    ct_pc, ct_chain, ct_items, ct_text, ct_alphabet, ct_i, ct_phone, ct_calls, ct_args,
    \* translate_words: the generator over a stream of Words
    tw_pc, tw_words, tw_chain, tw_alphabet, tw_i, tw_out, tw_src, tw_translated,
    tw_calls,
    \* _tokenize: the generator over the tokens of a text
    tk_pc, tk_tokens, tk_text, tk_offsets, tk_i, tk_segments, tk_open, tk_out,
    tk_first, tk_src, tk_hist,
    \* IceG2PTranslator: the transcriber's syllab_symbol and, per caller, the
    \* position in _translate and its locals
    ice_syllab, ice_pc, ice_text, ice_alphabet, ice_saved, ice_out, ice_result,
    ice_pre, ice_seen, ice_arg, ice_first, ice_overlap,
    \* GrammatekNormalizer.normalize, followed by translate_words
    gn_pc, gn_doc, gn_ssml, gn_parsed, gn_sents, gn_view, gn_bytes, gn_p_idx,
    gn_s, gn_t, gn_out, gn_src, gn_phon,
    \* one call of LexiconGraphemeToPhonemeTranslator._translate
    lx_pc, lx_tr, lx_w, lx_alphabet, lx_phones,
    \* version_hash: the lexicon files, the hash of each lexicon translator, and
    \* per ComposedTranslator its translators, its cached hash and what was read
    vh_file, vh_lex, vh_children, vh_cache, vh_reads,
    \* Espnet2Synthesizer.__init__, per instance: its arguments and how it ended
    es_in, es_pc, es_msg, es_hash, es_downloads

evars == <<e_items, e_text, e_tr, e_alphabet, e_pc, e_result, e_log>>
ctvars == <<ct_pc, ct_chain, ct_items, ct_text, ct_alphabet, ct_i, ct_phone, ct_calls, ct_args>>
twvars == <<tw_pc, tw_words, tw_chain, tw_alphabet, tw_i, tw_out, tw_src, tw_translated,
            tw_calls>>
tkvars == <<tk_pc, tk_tokens, tk_text, tk_offsets, tk_i, tk_segments, tk_open, tk_out,
            tk_first, tk_src, tk_hist>>
icevars == <<ice_syllab, ice_pc, ice_text, ice_alphabet, ice_saved, ice_out, ice_result,
             ice_pre, ice_seen, ice_arg, ice_first, ice_overlap>>
gnvars == <<gn_pc, gn_doc, gn_ssml, gn_parsed, gn_sents, gn_view, gn_bytes, gn_p_idx,
            gn_s, gn_t, gn_out, gn_src, gn_phon>>
lxvars == <<lx_pc, lx_tr, lx_w, lx_alphabet, lx_phones>>
vhvars == <<vh_file, vh_lex, vh_children, vh_cache, vh_reads>>
esvars == <<es_in, es_pc, es_msg, es_hash, es_downloads>>
vars == <<evars, ctvars, twvars, tkvars, icevars, gnvars, lxvars, vhvars, esvars>>

\* what the steps of one component leave alone
otherE == <<ctvars, twvars, tkvars, icevars, gnvars, lxvars, vhvars, esvars>>
otherCt == <<evars, twvars, tkvars, icevars, gnvars, lxvars, vhvars, esvars>>
otherTw == <<evars, ctvars, tkvars, icevars, gnvars, lxvars, vhvars, esvars>>
otherTk == <<evars, ctvars, twvars, icevars, gnvars, lxvars, vhvars, esvars>>
otherIce == <<evars, ctvars, twvars, tkvars, gnvars, lxvars, vhvars, esvars>>
otherGn == <<evars, ctvars, twvars, tkvars, icevars, lxvars, vhvars, esvars>>
otherLx == <<evars, ctvars, twvars, tkvars, icevars, gnvars, vhvars, esvars>>
otherVh == <<evars, ctvars, twvars, tkvars, icevars, gnvars, lxvars, esvars>>
otherEs == <<evars, ctvars, twvars, tkvars, icevars, gnvars, lxvars, vhvars>>

-----------------------------------------------------------------------------
(* Bounds of the model *)

\* items (words, brace spans, marks) of a text given to an embedded translator
MaxItems == 3
\* items of a text given to a ComposedTranslator
MaxCtItems == 1
\* translators of a ComposedTranslator
MaxChain == 2

-----------------------------------------------------------------------------
(* Python str operations, on sequences of characters *)

Whitespace == {" "}

RECURSIVE Concat(_)
\* "".join(parts) / the concatenation of a sequence of sequences
Concat(ss) == IF ss = <<>> THEN <<>> ELSE Head(ss) \o Concat(Tail(ss))

RECURSIVE SplitOn(_, _)
\* s.split(c): one piece per separator plus one; empty pieces are kept
SplitOn(s, c) ==
    IF \A i \in 1..Len(s) : s[i] # c
    THEN <<s>>
    ELSE LET k == CHOOSE i \in 1..Len(s) : s[i] = c /\ \A j \in 1..(i - 1) : s[j] # c
         IN  <<SubSeq(s, 1, k - 1)>> \o SplitOn(SubSeq(s, k + 1, Len(s)), c)

\* s.split(): pieces between runs of whitespace; no empty piece
SplitWs(s) == SelectSeq(SplitOn(s, " "), LAMBDA p : p # <<>>)

RECURSIVE ReplaceChar(_, _, _)
\* s.replace(c, r) for a one-character c
ReplaceChar(s, c, r) ==
    IF s = <<>> THEN <<>>
    ELSE (IF Head(s) = c THEN r ELSE <<Head(s)>>) \o ReplaceChar(Tail(s), c, r)

StartsWith(s, c) == Len(s) > 0 /\ s[1] = c
EndsWith(s, c) == Len(s) > 0 /\ s[Len(s)] = c

RECURSIVE Strip(_)
\* s.strip()
Strip(s) ==
    IF s = <<>> THEN s
    ELSE IF Head(s) \in Whitespace THEN Strip(Tail(s))
    ELSE IF s[Len(s)] \in Whitespace THEN Strip(SubSeq(s, 1, Len(s) - 1))
    ELSE s

LowerChar(c) == IF c = "B" THEN "b" ELSE IF c = "A" THEN "a" ELSE c
\* s.lower()
Lower(s) == [i \in 1..Len(s) |-> LowerChar(s[i])]

\* string.punctuation, within the model's characters
StringPunctuation == {".", ",", "!", "\\", "{", "}"}

\* the characters matched by the class "([...])" built from string.punctuation
\* without the braces and brackets: in the class the backslash of
\* string.punctuation escapes the '^' that follows it and is not itself matched
Punctuation == {".", ",", "!"}

\* re.sub("([punctuation])", " \1 ", s)
SurroundPunctuation(s) ==
    Concat([i \in 1..Len(s) |-> IF s[i] \in Punctuation THEN <<" ", s[i], " ">> ELSE <<s[i]>>])

\* re.sub("([punctuation])", "", s)
RemovePunctuation(s) == SelectSeq(s, LAMBDA c : c \notin Punctuation)

-----------------------------------------------------------------------------
(* Phones and alphabets (src.frontend.phonemes) *)

Alphabets == {"ipa", "x-sampa", "x-sampa+syll+stress"}

SHORT_PAUSE == <<"s", "p">>

\* the IPA phones of the model and their X-SAMPA counterparts
IpaXsampaMap == (<<"a">> :> <<"a">>) @@ (<<"h">> :> <<"h">>) @@ (<<"th">> :> <<"T">>)
             @@ (<<"dh">> :> <<"D">>) @@ (<<"p">> :> <<"p">>) @@ (SHORT_PAUSE :> SHORT_PAUSE)

\* what a conversion gives for a symbol its table does not hold
UnknownPhone == <<"?">>

IpaToXsampa(p) == IF p \in DOMAIN IpaXsampaMap THEN IpaXsampaMap[p] ELSE UnknownPhone
XsampaToIpa(p) ==
    IF \E q \in DOMAIN IpaXsampaMap : IpaXsampaMap[q] = p
    THEN CHOOSE q \in DOMAIN IpaXsampaMap : IpaXsampaMap[q] = p
    ELSE UnknownPhone

convert_ipa_to_xsampa(ps) == [i \in 1..Len(ps) |-> IpaToXsampa(ps[i])]
convert_xsampa_to_ipa(ps) == [i \in 1..Len(ps) |-> XsampaToIpa(ps[i])]

\* the stress conversion labels the first vowel of a word with primary stress
StressOf(p) == IF p = <<"a">> THEN <<"a", "1">> ELSE p
convert_xsampa_to_xsampa_with_stress(ps, w) == [i \in 1..Len(ps) |-> StressOf(ps[i])]

\* Aligner.align(s).split(" "): a run of phone symbols cut into its phones
AlignSplit(s) == [i \in 1..Len(s) |-> <<s[i]>>]

-----------------------------------------------------------------------------
(* The concrete translators *)

Translators == {"lexA", "lexB", "ice"}

\* the lexicons the two lexicon translators were built from: word form -> IPA phones
Lexicon(t) ==
    IF t = "lexA" THEN (<<"a">> :> << <<"a">> >>)
    ELSE IF t = "lexB" THEN (<<"a">> :> << <<"h">>, <<"a">> >>) @@ (<<"b">> :> << <<"p">>, <<"dh">> >>)
    ELSE IF t = "lexC" THEN (<<"A">> :> << <<"th">> >>) @@ (<<"a">> :> << <<"a">> >>)
                         @@ (<<"a", "b">> :> << <<"a">>, <<"p">> >>)
    ELSE << >>

\* lexicon.get(w, [])
LexiconGet(t, w) == IF w \in DOMAIN Lexicon(t) THEN Lexicon(t)[w] ELSE <<>>

\* LexiconGraphemeToPhonemeTranslator._translate, looking up the lower-case form only
LexiconTranslateLowerOnly(t, w, alphabet) ==
    LET phones == LexiconGet(t, Lower(w))
    IN  IF alphabet = "ipa" THEN phones
        ELSE IF alphabet = "x-sampa" THEN convert_ipa_to_xsampa(phones)
        ELSE convert_xsampa_to_xsampa_with_stress(convert_ipa_to_xsampa(phones), w)

\* LexiconGraphemeToPhonemeTranslator._translate
LexiconTranslate(t, w, alphabet) ==
    LET first == LexiconGet(t, w)
        phones == IF first # <<>> THEN first ELSE LexiconGet(t, Lower(w))
    IN  IF alphabet = "ipa" THEN phones
        ELSE IF alphabet = "x-sampa" THEN convert_ipa_to_xsampa(phones)
        ELSE convert_xsampa_to_xsampa_with_stress(convert_ipa_to_xsampa(phones), w)

\* ice_g2p Transcriber.transcribe: X-SAMPA phones of a lower-case text, one per
\* letter, syllables (one per letter here) separated by syllab_symbol when it is set
TranscribeLetter(c) == IF c = "a" THEN <<"a">> ELSE IF c = "b" THEN <<"p">> ELSE <<"h">>
RECURSIVE Transcribe(_, _)
Transcribe(text, syllab_symbol) ==
    LET ws == SelectSeq(text, LAMBDA c : c \notin Whitespace)
    IN  IF ws = <<>> THEN <<>>
        ELSE <<TranscribeLetter(Head(ws))>>
             \o (IF Len(ws) > 1 /\ syllab_symbol # <<>> THEN <<syllab_symbol>> ELSE <<>>)
             \o Transcribe(Tail(ws), syllab_symbol)

\* IceG2PTranslator._translate, as the value one undisturbed call returns
IceTranslate(text, alphabet) ==
    LET stripped == RemovePunctuation(text)
    IN  IF Strip(stripped) = <<>> THEN <<>>
        ELSE LET out == Transcribe(Lower(stripped),
                                   IF alphabet # "x-sampa+syll+stress" THEN <<>> ELSE <<".">>)
             IN  IF alphabet = "ipa" THEN convert_xsampa_to_ipa(out) ELSE out

\* t._translate(w, lang, alphabet)
WordTranslate(t, w, alphabet) ==
    IF t = "ice" THEN IceTranslate(w, alphabet) ELSE LexiconTranslate(t, w, alphabet)

-----------------------------------------------------------------------------
(* EmbeddedPhonemeTranslatorBase *)

\* the alphabet conversion of one raw phone of a span that covers several pieces
ConvertOpenPhone(phone, alphabet) ==
    IF alphabet = "ipa" THEN phone
    ELSE LET x == convert_ipa_to_xsampa(<<phone>>)[1]
         IN  IF alphabet = "x-sampa+syll+stress"
             THEN convert_xsampa_to_xsampa_with_stress(convert_ipa_to_xsampa(<<x>>), <<>>)[1]
             ELSE x

\* the alphabet conversion of the phones of a span that is one piece
ConvertSpan(ps, alphabet) ==
    IF alphabet = "ipa" THEN ps
    ELSE IF alphabet = "x-sampa" THEN convert_ipa_to_xsampa(ps)
    ELSE convert_xsampa_to_xsampa_with_stress(convert_ipa_to_xsampa(ps), <<>>)

\* what a piece equal to '.' or ',' appends, were it the short pause always
PauseMarkerAlwaysShort(alphabet) == SHORT_PAUSE

\* what a piece equal to '.' or ',' appends
PauseMarker(alphabet) == IF alphabet = "x-sampa+syll+stress" THEN <<".">> ELSE SHORT_PAUSE

\* one iteration of the loop of _process_embedded, for piece w:
\* [open |-> phoneme_str_open, seq |-> phone_seq] after it; log keeps, per
\* piece, the state it was met in, where its phones start in phone_seq, how many
\* they are and whether translate_fn was called on it
ScanPiece(st, w, t, alphabet) ==
    LET After(open, added, called) ==
            [open |-> open, seq |-> st.seq \o added,
             log |-> Append(st.log, [w |-> w, open |-> st.open, at |-> Len(st.seq),
                                     n |-> Len(added), called |-> called])]
    IN  IF st.open
        THEN LET closes == EndsWith(w, "}")
                 phone == IF closes THEN ReplaceChar(w, "}", <<>>) ELSE w
             IN  After(~closes, <<ConvertOpenPhone(phone, alphabet)>>, FALSE)
        ELSE IF StartsWith(w, "{") /\ EndsWith(w, "}")
        THEN After(FALSE,
                   ConvertSpan(AlignSplit(ReplaceChar(ReplaceChar(w, "{", <<>>), "}", <<>>)),
                               alphabet),
                   FALSE)
        ELSE IF StartsWith(w, "{")
        THEN After(TRUE, <<ConvertOpenPhone(ReplaceChar(w, "{", <<>>), alphabet)>>, FALSE)
        ELSE IF w \in {<<".">>, <<",">>}
        THEN After(FALSE, <<PauseMarker(alphabet)>>, FALSE)
        ELSE After(FALSE, WordTranslate(t, w, alphabet), TRUE)

RECURSIVE ScanPieces(_, _, _, _)
ScanPieces(st, pieces, t, alphabet) ==
    IF pieces = <<>> THEN st
    ELSE ScanPieces(ScanPiece(st, Head(pieces), t, alphabet), Tail(pieces), t, alphabet)

\* EmbeddedPhonemeTranslatorBase._process_embedded
ProcessEmbedded(text, t, alphabet) ==
    ScanPieces([open |-> FALSE, seq |-> <<>>, log |-> <<>>], SplitOn(text, " "), t, alphabet)

\* translate without the rewriting of '.' into " ."
EmbeddedTranslateDotKept(t, text, alphabet) ==
    ProcessEmbedded(ReplaceChar(text, ",", <<" ", ",">>), t, alphabet).seq

\* EmbeddedPhonemeTranslatorBase.translate, with the scanner's final state
EmbeddedScan(t, text, alphabet) ==
    ProcessEmbedded(ReplaceChar(ReplaceChar(text, ",", <<" ", ",">>), ".", <<" ", ".">>),
                    t, alphabet)

\* EmbeddedPhonemeTranslatorBase.translate
EmbeddedTranslate(t, text, alphabet) == EmbeddedScan(t, text, alphabet).seq

-----------------------------------------------------------------------------
(* ComposedTranslator.translate as a value: the loop run to its end *)

\* ComposedTranslator.translate asking its first translator only
ComposedTranslateFirstOnly(chain, text, alphabet) ==
    IF chain = <<>> THEN <<>> ELSE EmbeddedTranslate(Head(chain), text, alphabet)

RECURSIVE ComposedTranslate(_, _, _)
ComposedTranslate(chain, text, alphabet) ==
    IF chain = <<>> THEN <<>>
    ELSE LET phone == EmbeddedTranslate(Head(chain), text, alphabet)
         IN  IF phone # <<>> \/ Len(chain) = 1 THEN phone
             ELSE ComposedTranslate(Tail(chain), text, alphabet)

-----------------------------------------------------------------------------
(* Input texts: items written one after the other.  An item is a word, a   *)
(* brace-delimited span of phones separated by spaces, or a '.' / ','      *)
(* mark, with or without a space before it.                                *)

ItemWords == {<<"a">>, <<"B">>}
ItemSpans == {<<"h">>, <<"th", "a">>}
ItemMarks == {<<".">>, <<",">>}

Items ==
    [k : {"word"}, v : ItemWords, sp : BOOLEAN]
    \cup [k : {"span"}, v : ItemSpans, sp : BOOLEAN]
    \cup [k : {"mark"}, v : ItemMarks, sp : BOOLEAN]

SeqsUpTo(S, n) == UNION {[1..m -> S] : m \in 0..n}

RECURSIVE JoinSpace(_)
\* " ".join(parts) for one-character parts
JoinSpace(cs) ==
    IF Len(cs) <= 1 THEN cs ELSE <<Head(cs), " ">> \o JoinSpace(Tail(cs))

RenderItem(it) ==
    (IF it.sp THEN <<" ">> ELSE <<>>)
    \o (IF it.k = "span" THEN <<"{">> \o JoinSpace(it.v) \o <<"}">> ELSE it.v)

RenderText(items) == Concat([i \in 1..Len(items) |-> RenderItem(items[i])])

-----------------------------------------------------------------------------
(* Specification SpecEmbedded: translate of one embedded-phoneme           *)
(* translator applied to a text.                                           *)

IdleEmbedded ==
    /\ e_items = <<>> /\ e_text = <<>> /\ e_tr = "lexA" /\ e_alphabet = "ipa"
    /\ e_pc = "idle" /\ e_result = <<>> /\ e_log = <<>>

IdleComposed ==
    /\ ct_pc = "idle" /\ ct_chain = <<>> /\ ct_items = <<>> /\ ct_text = <<>>
    /\ ct_alphabet = "ipa" /\ ct_i = 0 /\ ct_phone = <<>> /\ ct_calls = <<>>
    /\ ct_args = <<>>

IdleWords ==
    /\ tw_pc = "idle" /\ tw_words = <<>> /\ tw_chain = <<>> /\ tw_alphabet = "ipa"
    /\ tw_i = 0 /\ tw_out = <<>> /\ tw_src = <<>> /\ tw_translated = {}
    /\ tw_calls = <<>>

IdleTokenize ==
    /\ tk_pc = "idle" /\ tk_tokens = <<>> /\ tk_text = <<>> /\ tk_offsets = <<>>
    /\ tk_i = 0 /\ tk_segments = <<>> /\ tk_open = FALSE /\ tk_out = <<>>
    /\ tk_first = 0 /\ tk_src = <<>> /\ tk_hist = <<>>

\* the callers of _translate on one IceG2PTranslator
Callers == {1, 2}

\* IceG2PTranslator.__init__: Transcriber(use_dict=True, syllab_symbol=".", ...);
\* no call of _translate is under way
IdleIce ==
    /\ ice_syllab = <<".">>
    /\ ice_pc = [p \in Callers |-> "idle"]
    /\ ice_text = [p \in Callers |-> <<>>]
    /\ ice_alphabet = [p \in Callers |-> "ipa"]
    /\ ice_saved = [p \in Callers |-> <<>>]
    /\ ice_out = [p \in Callers |-> <<>>]
    /\ ice_result = [p \in Callers |-> <<>>]
    /\ ice_pre = [p \in Callers |-> <<>>]
    /\ ice_seen = [p \in Callers |-> <<>>]
    /\ ice_arg = [p \in Callers |-> <<>>]
    /\ ice_first = <<>>
    /\ ice_overlap = FALSE

IdleNormalize ==
    /\ gn_pc = "idle" /\ gn_doc = <<>> /\ gn_ssml = FALSE /\ gn_parsed = <<>>
    /\ gn_sents = <<>> /\ gn_view = <<>> /\ gn_bytes = 0 /\ gn_p_idx = 0
    /\ gn_s = 0 /\ gn_t = 0 /\ gn_out = <<>> /\ gn_src = <<>> /\ gn_phon = <<>>

IdleLexicon ==
    /\ lx_pc = "idle" /\ lx_tr = "lexA" /\ lx_w = <<>> /\ lx_alphabet = "ipa"
    /\ lx_phones = <<>>

Instances == {1, 2}

IdleVersion ==
    /\ vh_file = [i \in Instances |-> <<>>]
    /\ vh_lex = [i \in Instances |-> <<>>]
    /\ vh_children = [c \in Instances |-> <<>>]
    /\ vh_cache = [c \in Instances |-> <<>>]
    /\ vh_reads = [c \in Instances |-> <<>>]

IdleSynth ==
    /\ es_in = [i \in Instances |-> <<>>]
    /\ es_pc = [i \in Instances |-> "idle"]
    /\ es_msg = [i \in Instances |-> ""]
    /\ es_hash = [i \in Instances |-> <<>>]
    /\ es_downloads = [i \in Instances |-> 0]

EmbeddedTranslators == {"lexA", "ice"}

InitEmbedded ==
    /\ e_items \in SeqsUpTo(Items, MaxItems)
    /\ e_text = RenderText(e_items)
    /\ e_tr \in EmbeddedTranslators
    /\ e_alphabet \in Alphabets
    /\ e_pc = "call"
    /\ e_result = <<>>
    /\ e_log = <<>>
    /\ IdleComposed /\ IdleWords /\ IdleTokenize /\ IdleIce /\ IdleNormalize
    /\ IdleLexicon /\ IdleVersion /\ IdleSynth

\* translator.translate(text, lang, alphabet)
EP_Translate ==
    /\ e_pc = "call"
    /\ e_result' = EmbeddedTranslate(e_tr, e_text, e_alphabet)
    /\ e_log' = EmbeddedScan(e_tr, e_text, e_alphabet).log
    /\ e_pc' = "done"
    /\ UNCHANGED <<e_items, e_text, e_tr, e_alphabet, otherE>>

NextEmbedded == EP_Translate

SpecEmbedded == InitEmbedded /\ [][NextEmbedded]_vars

-----------------------------------------------------------------------------
(* Specification SpecPieces: the same call on a text written character by  *)
(* character, so that braces, spaces and marks stand in any order.         *)

MaxChars == 5

TextChars == {"{", "}", " ", "a", "."}

InitPieces ==
    /\ e_items = <<>>
    /\ e_text \in SeqsUpTo(TextChars, MaxChars)
    /\ e_tr \in EmbeddedTranslators
    /\ e_alphabet \in Alphabets
    /\ e_pc = "call"
    /\ e_result = <<>>
    /\ e_log = <<>>
    /\ IdleComposed /\ IdleWords /\ IdleTokenize /\ IdleIce /\ IdleNormalize
    /\ IdleLexicon /\ IdleVersion /\ IdleSynth

SpecPieces == InitPieces /\ [][NextEmbedded]_vars

-----------------------------------------------------------------------------
(* Specification SpecComposed: a ComposedTranslator is constructed and its *)
(* translate is called; one step per iteration of its loop.                *)

InitComposed ==
    /\ ct_pc = "new" /\ ct_chain = <<>> /\ ct_items = <<>> /\ ct_text = <<>>
    /\ ct_alphabet = "ipa" /\ ct_i = 0 /\ ct_phone = <<>> /\ ct_calls = <<>>
    /\ ct_args = <<>>
    /\ IdleEmbedded /\ IdleWords /\ IdleTokenize /\ IdleIce /\ IdleNormalize
    /\ IdleLexicon /\ IdleVersion /\ IdleSynth

\* len(translators) < 1, were no number of translators too small
TooFewNever(translators) == FALSE

\* len(translators) < 1
TooFew(translators) == Len(translators) < 1

\* ComposedTranslator.__init__(*translators)
CT_Construct ==
    /\ ct_pc = "new"
    /\ \E ts \in SeqsUpTo(Translators, MaxChain) :
         /\ ct_args' = ts
         /\ IF TooFew(ts)
            THEN ct_pc' = "ValueError" /\ ct_chain' = <<>>
            ELSE ct_pc' = "ready" /\ ct_chain' = ts
    /\ UNCHANGED <<ct_items, ct_text, ct_alphabet, ct_i, ct_phone, ct_calls, otherCt>>

\* texts of several words: two words, a span and a word, two words and a mark
SeveralWords ==
    LET F(v) == [k |-> "word", v |-> v, sp |-> FALSE]
        W(v) == [k |-> "word", v |-> v, sp |-> TRUE]
    IN  { <<F(<<"a">>), W(<<"B">>)>>,
          <<F(<<"B">>), W(<<"a">>)>>,
          <<[k |-> "span", v |-> <<"h">>, sp |-> FALSE], W(<<"a">>), W(<<"B">>)>>,
          <<F(<<"a">>), [k |-> "mark", v |-> <<".">>, sp |-> FALSE], W(<<"B">>)>> }

\* the texts translate is called with
CallTexts == SeqsUpTo(Items, MaxCtItems) \cup SeveralWords

\* translate(text, lang, alphabet) is entered: phone = []
CT_Call ==
    /\ ct_pc = "ready"
    /\ \E its \in CallTexts, a \in Alphabets :
         /\ ct_items' = its
         /\ ct_text' = RenderText(its)
         /\ ct_alphabet' = a
    /\ ct_i' = 1
    /\ ct_phone' = <<>>
    /\ ct_calls' = <<>>
    /\ ct_pc' = "loop"
    /\ UNCHANGED <<ct_chain, ct_args, otherCt>>

\* a loop that never breaks
LoopBreaksNever(phone) == FALSE

\* a loop that goes on after a result of one phone
LoopBreaksOnSeveral(phone) == Len(phone) >= 2

\* whether the loop of translate ends after an iteration that got phone
LoopBreaks(phone) == phone # <<>>

\* one iteration: phone = t.translate(text, lang, alphabet); if phone: break
CT_Iterate ==
    /\ ct_pc = "loop"
    /\ ct_i <= Len(ct_chain)
    /\ LET phone == EmbeddedTranslate(ct_chain[ct_i], ct_text, ct_alphabet)
       IN  /\ ct_phone' = phone
           /\ ct_calls' = Append(ct_calls, ct_i)
           /\ IF LoopBreaks(phone)
              THEN ct_pc' = "return" /\ ct_i' = ct_i
              ELSE ct_pc' = "loop" /\ ct_i' = ct_i + 1
    /\ UNCHANGED <<ct_chain, ct_items, ct_text, ct_alphabet, ct_args, otherCt>>

\* the loop ran out of translators
CT_Exhausted ==
    /\ ct_pc = "loop"
    /\ ct_i > Len(ct_chain)
    /\ ct_pc' = "return"
    /\ UNCHANGED <<ct_chain, ct_items, ct_text, ct_alphabet, ct_i, ct_phone, ct_calls, ct_args,
                   otherCt>>

\* return phone; the translator can be called again
CT_Return ==
    /\ ct_pc = "return"
    /\ ct_pc' = "returned"
    /\ UNCHANGED <<ct_chain, ct_items, ct_text, ct_alphabet, ct_i, ct_phone, ct_calls, ct_args,
                   otherCt>>

CT_Again ==
    /\ ct_pc = "returned"
    /\ ct_pc' = "ready"
    /\ UNCHANGED <<ct_chain, ct_items, ct_text, ct_alphabet, ct_i, ct_phone, ct_calls, ct_args,
                   otherCt>>

NextComposed ==
    \/ CT_Construct
    \/ CT_Call
    \/ CT_Iterate
    \/ CT_Exhausted
    \/ CT_Return
    \/ CT_Again

SpecComposed == InitComposed /\ [][NextComposed]_vars

-----------------------------------------------------------------------------
(* Words (src.frontend.words) *)

\* ssml_props of a Word that does not come from markup
NoSsmlProps == [present |-> FALSE, tag_type |-> "", multi |-> FALSE]
SsmlProps(tag, multi) == [present |-> TRUE, tag_type |-> tag, multi |-> multi]

MkWord(orig, sym, phones, start, end, props) ==
    [original_symbol |-> orig, symbol |-> sym, phone_sequence |-> phones,
     start_byte_offset |-> start, end_byte_offset |-> end, ssml_props |-> props]

\* Word(): the sentence separator sentinel
WORD_SENTENCE_SEPARATOR == MkWord(<<>>, <<>>, <<>>, 0, 0, NoSsmlProps)

\* Word.is_from_ssml()
IsFromSsml(w) == w.ssml_props.present

Letters == {"a", "b", "A", "B", "h", "th", "dh"}

\* Word.is_spoken(): the Word carries linguistic content
IsSpoken(w) ==
    \/ \E i \in 1..Len(w.original_symbol) : w.original_symbol[i] \in Letters
    \/ \E i \in 1..Len(w.symbol) : w.symbol[i] \in Letters

-----------------------------------------------------------------------------
(* Specification SpecWords: GraphemeToPhonemeTranslatorBase.translate_words *)
(* over a stream of Words, one step per Word taken from the stream.         *)

MaxWords == 2

ssml_tag_skiplist == {"phoneme"}

\* should_translate without the test of the skip-list
ShouldTranslateAnyTag(word) ==
    \/ ~IsFromSsml(word) /\ word # WORD_SENTENCE_SEPARATOR
    \/ IsFromSsml(word) /\ word # WORD_SENTENCE_SEPARATOR

\* should_translate
ShouldTranslate(word) ==
    \/ ~IsFromSsml(word) /\ word # WORD_SENTENCE_SEPARATOR
    \/ /\ IsFromSsml(word)
       /\ word.ssml_props.tag_type \notin ssml_tag_skiplist
       /\ word # WORD_SENTENCE_SEPARATOR

\* the phone_sequence the translating branch builds for a symbol
TranslateSymbol(chain, symbol, alphabet) ==
    LET subs == SplitWs(SurroundPunctuation(symbol))
    IN  Concat([k \in 1..Len(subs) |-> ComposedTranslate(chain, subs[k], alphabet)])

\* the Word translate_words yields for a Word of its input
TranslateWord(word, chain, alphabet) ==
    IF ShouldTranslate(word)
    THEN [word EXCEPT !.phone_sequence = TranslateSymbol(chain, word.symbol, alphabet)]
    ELSE word

\* a marker Word follows the Word, whatever the Word is
EmitsMarkerAnyWord(word, alphabet) == alphabet = "x-sampa+syll+stress"

\* a marker Word follows the Word
EmitsMarker(word, alphabet) == IsSpoken(word) /\ alphabet = "x-sampa+syll+stress"

\* the Words a stream given to translate_words is drawn from
InputSymbols == {<<"a", ".", "B">>, <<"!">>, <<"{", "h", "}">>, <<"a", "\\">>}
InputWords ==
    {MkWord(s, s, ph, 0, 0, pr) :
        s \in InputSymbols,
        ph \in {<<>>, << <<"h">> >>},
        pr \in {NoSsmlProps, SsmlProps("phoneme", FALSE), SsmlProps("prosody", FALSE)}}
    \cup {WORD_SENTENCE_SEPARATOR}

\* the phonetizers translate_words is run on
Phonetizers == {<<"lexA", "ice">>, <<"lexA", "lexB">>}

InitWords ==
    /\ tw_pc = "run"
    /\ tw_words \in SeqsUpTo(InputWords, MaxWords)
    /\ tw_chain \in Phonetizers
    /\ tw_alphabet \in Alphabets
    /\ tw_i = 1
    /\ tw_out = <<>>
    /\ tw_src = <<>>
    /\ tw_translated = {}
    /\ tw_calls = <<>>
    /\ IdleEmbedded /\ IdleComposed /\ IdleTokenize /\ IdleIce /\ IdleNormalize
    /\ IdleLexicon /\ IdleVersion /\ IdleSynth

\* one iteration of the for loop: the Word is translated or not, yielded, and
\* followed by a marker Word for a spoken Word with the stress alphabet
TW_Step ==
    /\ tw_pc = "run"
    /\ tw_i <= Len(tw_words)
    /\ LET word == tw_words[tw_i]
           should_translate == ShouldTranslate(word)
           yielded == TranslateWord(word, tw_chain, tw_alphabet)
           marker == EmitsMarker(yielded, tw_alphabet)
       IN  /\ tw_out' = tw_out \o <<yielded>>
                 \o (IF marker
                     THEN <<MkWord(<<>>, <<>>, << <<".">> >>, 0, 0, NoSsmlProps)>>
                     ELSE <<>>)
           /\ tw_src' = tw_src \o <<tw_i>> \o (IF marker THEN <<0>> ELSE <<>>)
           /\ tw_translated' = IF should_translate THEN tw_translated \cup {tw_i}
                               ELSE tw_translated
           \* the texts self.translate is called on for this Word
           /\ tw_calls' = IF should_translate
                          THEN Append(tw_calls,
                                      [i |-> tw_i,
                                       texts |-> SplitWs(SurroundPunctuation(word.symbol))])
                          ELSE tw_calls
    /\ tw_i' = tw_i + 1
    /\ UNCHANGED <<tw_pc, tw_words, tw_chain, tw_alphabet, otherTw>>

\* the stream is exhausted: the generator ends
TW_End ==
    /\ tw_pc = "run"
    /\ tw_i > Len(tw_words)
    /\ tw_pc' = "done"
    /\ UNCHANGED <<tw_words, tw_chain, tw_alphabet, tw_i, tw_out, tw_src, tw_translated,
                   tw_calls, otherTw>>

NextWords == TW_Step \/ TW_End

SpecWords == InitWords /\ [][NextWords]_vars

-----------------------------------------------------------------------------
(* The plain-text tokenizer: add_token_offsets and _tokenize                *)

CharBytes(c) == IF c \in {"th", "dh"} THEN 2 ELSE 1

RECURSIVE utf8_byte_length(_)
\* the number of bytes of the UTF-8 encoding of s
utf8_byte_length(s) == IF s = <<>> THEN 0 ELSE CharBytes(Head(s)) + utf8_byte_length(Tail(s))

\* a tokenizer.Tok: its kind, the text it was read from (leading whitespace
\* included) and, per character of the token, its index in that text (from 0)
Tok(kind, ws, body) ==
    [kind |-> kind, original |-> ws \o body,
     origin_spans |-> [i \in 1..Len(body) |-> Len(ws) + i - 1]]

TokenBodies == {<<"a">>, <<"dh">>, <<"{">>, <<"}">>, <<"{", "h">>, <<"{", "a", "}">>}

\* the tokens tokenize_without_annotation gives: sentence marks, which carry no
\* text, and tokens with text
Tokens ==
    {Tok("S_BEGIN", <<>>, <<>>), Tok("S_END", <<>>, <<>>)}
    \cup {Tok("WORD", ws, b) : ws \in {<<>>, <<" ">>}, b \in TokenBodies}

MaxTokens == 3

\* n_bytes_consumed is set to, not raised by, the bytes of the token
ConsumedReset(n, tok) == utf8_byte_length(tok.original)

\* n_bytes_consumed after a token with text
Consumed(n, tok) == n + utf8_byte_length(tok.original)

RECURSIVE AddOffsetsFrom(_, _)
\* the loop of add_token_offsets, from n_bytes_consumed = n
AddOffsetsFrom(tokens, n) ==
    IF tokens = <<>> THEN <<>>
    ELSE LET tok == Head(tokens)
         IN  IF tok.kind = "S_END"
             THEN <<[tok |-> tok, start |-> 0, end |-> 0]>> \o AddOffsetsFrom(Tail(tokens), n)
             ELSE IF tok.origin_spans = <<>> \/ tok.original = <<>>
             THEN AddOffsetsFrom(Tail(tokens), n)
             ELSE LET first == tok.origin_spans[1]
                      last == tok.origin_spans[Len(tok.origin_spans)]
                      start_offset == n + utf8_byte_length(SubSeq(tok.original, 1, first))
                      end_offset == start_offset
                          + utf8_byte_length(SubSeq(tok.original, first + 1, last + 1))
                  IN  <<[tok |-> tok, start |-> start_offset, end |-> end_offset]>>
                      \o AddOffsetsFrom(Tail(tokens), Consumed(n, tok))

add_token_offsets(tokens) == AddOffsetsFrom(tokens, 0)

\* the symbol of a Word built from the segments of a brace span, joined by spaces
JoinSegmentsSpaced(segments) ==
    Concat([i \in 1..Len(segments) |->
               IF i = 1 THEN segments[i] ELSE <<" ">> \o segments[i]])

\* "".join(current_word_segments)
JoinSegments(segments) == Concat(segments)

InitTokenize ==
    /\ tk_pc = "start"
    /\ tk_tokens \in SeqsUpTo(Tokens, MaxTokens)
    /\ tk_text = Concat([i \in 1..Len(tk_tokens) |-> tk_tokens[i].original])
    /\ tk_offsets = <<>>
    /\ tk_i = 0
    /\ tk_segments = <<>>
    /\ tk_open = FALSE
    /\ tk_out = <<>>
    /\ tk_first = 0
    /\ tk_src = <<>>
    /\ tk_hist = <<>>
    /\ IdleEmbedded /\ IdleComposed /\ IdleWords /\ IdleIce /\ IdleNormalize
    /\ IdleLexicon /\ IdleVersion /\ IdleSynth

\* _tokenize up to its loop: the tokens are listed and given their offsets
TK_Start ==
    /\ tk_pc = "start"
    /\ tk_offsets' = add_token_offsets(tk_tokens)
    /\ tk_i' = 1
    /\ tk_pc' = "loop"
    /\ UNCHANGED <<tk_tokens, tk_text, tk_segments, tk_open, tk_out, tk_first, tk_src,
                   tk_hist, otherTk>>

\* one iteration of the loop of _tokenize
TK_Step ==
    /\ tk_pc = "loop"
    /\ tk_i <= Len(tk_offsets)
    /\ LET entry == tk_offsets[tk_i]
           w == Strip(entry.tok.original)
           segments == Append(tk_segments, w)
           spanWord == MkWord(JoinSegments(segments), JoinSegments(segments), <<>>,
                              entry.start, entry.end, NoSsmlProps)
           plainWord == MkWord(w, w, <<>>, entry.start, entry.end, NoSsmlProps)
       IN  IF entry.tok.kind = "S_END"
           THEN UNCHANGED <<tk_segments, tk_open, tk_out, tk_first, tk_src>>
           ELSE IF tk_open
           THEN IF EndsWith(w, "}")
                THEN /\ tk_out' = Append(tk_out, spanWord)
                     /\ tk_src' = Append(tk_src, <<tk_first, tk_i>>)
                     /\ tk_open' = FALSE
                     /\ tk_segments' = <<>>
                     /\ UNCHANGED tk_first
                ELSE /\ tk_segments' = segments
                     /\ UNCHANGED <<tk_open, tk_out, tk_first, tk_src>>
           ELSE IF StartsWith(w, "{") /\ ~EndsWith(w, "}")
                THEN /\ tk_segments' = segments
                     /\ tk_open' = TRUE
                     /\ tk_first' = tk_i
                     /\ UNCHANGED <<tk_out, tk_src>>
                ELSE /\ tk_out' = Append(tk_out, plainWord)
                     /\ tk_src' = Append(tk_src, <<tk_i, tk_i>>)
                     /\ UNCHANGED <<tk_segments, tk_open, tk_first>>
    /\ tk_hist' = Append(tk_hist, tk_open')
    /\ tk_i' = tk_i + 1
    /\ UNCHANGED <<tk_pc, tk_tokens, tk_text, tk_offsets, otherTk>>

\* the tokens are exhausted: the generator ends
TK_End ==
    /\ tk_pc = "loop"
    /\ tk_i > Len(tk_offsets)
    /\ tk_pc' = "done"
    /\ UNCHANGED <<tk_tokens, tk_text, tk_offsets, tk_i, tk_segments, tk_open, tk_out,
                   tk_first, tk_src, tk_hist, otherTk>>

NextTokenize == TK_Start \/ TK_Step \/ TK_End

SpecTokenize == InitTokenize /\ [][NextTokenize]_vars

-----------------------------------------------------------------------------
(* IceG2PTranslator._translate, statement by statement.  The transcriber is *)
(* shared by every call on the translator; transcribe, an external call,     *)
(* returns or raises.                                                        *)

IceTexts == {<<"a">>, <<"B", "a">>, <<".">>, <<>>, <<" ">>, <<".", " ">>, <<"\\">>}

InitIce ==
    /\ IdleIce
    /\ IdleEmbedded /\ IdleComposed /\ IdleWords /\ IdleTokenize /\ IdleNormalize
    /\ IdleLexicon /\ IdleVersion /\ IdleSynth

\* caller q is inside _translate
Running(q) == ice_pc[q] \notin {"idle", "returned", "raised"}

\* _translate(text, lang, alphabet) is entered, text being one of texts
ICE_CallWith(p, texts) ==
    /\ ice_pc[p] = "idle"
    /\ \E t \in texts, a \in Alphabets :
         /\ ice_text' = [ice_text EXCEPT ![p] = t]
         /\ ice_arg' = [ice_arg EXCEPT ![p] = t]
         /\ ice_alphabet' = [ice_alphabet EXCEPT ![p] = a]
    /\ ice_pre' = [ice_pre EXCEPT ![p] = ice_syllab]
    /\ ice_seen' = [ice_seen EXCEPT ![p] = <<>>]
    /\ ice_saved' = [ice_saved EXCEPT ![p] = <<>>]
    /\ ice_out' = [ice_out EXCEPT ![p] = <<>>]
    /\ ice_result' = [ice_result EXCEPT ![p] = <<>>]
    /\ ice_pc' = [ice_pc EXCEPT ![p] = "strip"]
    \* kept to state the claims: whether a call was entered while another was running
    /\ ice_overlap' = (ice_overlap \/ \E q \in Callers \ {p} : Running(q))
    /\ UNCHANGED <<ice_syllab, ice_first, otherIce>>

\* _translate(text, lang, alphabet) is entered
ICE_Call(p) == ICE_CallWith(p, IceTexts)

\* the punctuation is removed; an empty text returns [] at once
ICE_Strip(p) ==
    /\ ice_pc[p] = "strip"
    /\ LET text == RemovePunctuation(ice_text[p])
       IN  /\ ice_text' = [ice_text EXCEPT ![p] = text]
           /\ ice_pc' = [ice_pc EXCEPT ![p] =
                  IF Strip(text) = <<>> THEN "returned"
                  ELSE IF ice_alphabet[p] # "x-sampa+syll+stress" THEN "save"
                  ELSE "transcribe"]
    /\ UNCHANGED <<ice_syllab, ice_alphabet, ice_saved, ice_out, ice_result, ice_pre,
                   ice_seen, ice_arg, ice_first, ice_overlap, otherIce>>

\* syllab_symbol = self._transcriber.syllab_symbol
ICE_Save(p) ==
    /\ ice_pc[p] = "save"
    /\ ice_saved' = [ice_saved EXCEPT ![p] = ice_syllab]
    /\ ice_pc' = [ice_pc EXCEPT ![p] = "clear"]
    /\ UNCHANGED <<ice_syllab, ice_text, ice_alphabet, ice_out, ice_result, ice_pre,
                   ice_seen, ice_arg, ice_first, ice_overlap, otherIce>>

\* self._transcriber.syllab_symbol = ""
ICE_Clear(p) ==
    /\ ice_pc[p] = "clear"
    /\ ice_syllab' = <<>>
    /\ ice_pc' = [ice_pc EXCEPT ![p] = "transcribe"]
    /\ UNCHANGED <<ice_text, ice_alphabet, ice_saved, ice_out, ice_result, ice_pre,
                   ice_seen, ice_arg, ice_first, ice_overlap, otherIce>>

\* out = self._transcriber.transcribe(text.lower()) returns
ICE_Transcribe(p) ==
    /\ ice_pc[p] = "transcribe"
    /\ ice_seen' = [ice_seen EXCEPT ![p] = <<ice_syllab>>]
    /\ ice_out' = [ice_out EXCEPT ![p] =
           Transcribe(Lower(ice_text[p]), ice_syllab)]
    /\ ice_pc' = [ice_pc EXCEPT ![p] =
           IF ice_alphabet[p] # "x-sampa+syll+stress" THEN "restore" ELSE "convert"]
    /\ UNCHANGED <<ice_syllab, ice_text, ice_alphabet, ice_saved, ice_result, ice_pre,
                   ice_arg, ice_first, ice_overlap, otherIce>>

\* transcribe raises: no handler is around the call, the exception leaves _translate
ICE_TranscribeRaises(p) ==
    /\ ice_pc[p] = "transcribe"
    /\ ice_seen' = [ice_seen EXCEPT ![p] = <<ice_syllab>>]
    /\ ice_pc' = [ice_pc EXCEPT ![p] = "raised"]
    /\ UNCHANGED <<ice_syllab, ice_text, ice_alphabet, ice_saved, ice_out, ice_result,
                   ice_pre, ice_arg, ice_first, ice_overlap, otherIce>>

\* the assignment left out: syllab_symbol stays as it is
ICE_RestoreNothing(p) ==
    /\ ice_pc[p] = "restore"
    /\ ice_pc' = [ice_pc EXCEPT ![p] = "convert"]
    /\ UNCHANGED <<ice_syllab, ice_text, ice_alphabet, ice_saved, ice_out, ice_result,
                   ice_pre, ice_seen, ice_arg, ice_first, ice_overlap, otherIce>>

\* self._transcriber.syllab_symbol = syllab_symbol
ICE_Restore(p) ==
    /\ ice_pc[p] = "restore"
    /\ ice_syllab' = ice_saved[p]
    /\ ice_pc' = [ice_pc EXCEPT ![p] = "convert"]
    /\ UNCHANGED <<ice_text, ice_alphabet, ice_saved, ice_out, ice_result, ice_pre,
                   ice_seen, ice_arg, ice_first, ice_overlap, otherIce>>

\* phone_seq = out.split(); the conversion for ipa; return
ICE_Return(p) ==
    /\ ice_pc[p] = "convert"
    /\ ice_result' = [ice_result EXCEPT ![p] =
           IF ice_alphabet[p] = "ipa" THEN convert_xsampa_to_ipa(ice_out[p]) ELSE ice_out[p]]
    \* kept to state the claims: the first call that returned, with its result
    /\ ice_first' = IF ice_first = <<>>
                     THEN <<[text |-> ice_arg[p], alphabet |-> ice_alphabet[p],
                             result |-> ice_result'[p]]>>
                     ELSE ice_first
    /\ ice_pc' = [ice_pc EXCEPT ![p] = "returned"]
    /\ UNCHANGED <<ice_syllab, ice_text, ice_alphabet, ice_saved, ice_out, ice_pre,
                   ice_seen, ice_arg, ice_overlap, otherIce>>

\* the caller has the result, or the exception, and may call again
ICE_Done(p) ==
    /\ ice_pc[p] \in {"returned", "raised"}
    /\ ice_pc' = [ice_pc EXCEPT ![p] = "idle"]
    /\ UNCHANGED <<ice_syllab, ice_text, ice_alphabet, ice_saved, ice_out, ice_result,
                   ice_pre, ice_seen, ice_arg, ice_first, ice_overlap, otherIce>>

IceStep(p) ==
    \/ ICE_Call(p)
    \/ ICE_Strip(p)
    \/ ICE_Save(p)
    \/ ICE_Clear(p)
    \/ ICE_Transcribe(p)
    \/ ICE_TranscribeRaises(p)
    \/ ICE_Restore(p)
    \/ ICE_Return(p)
    \/ ICE_Done(p)

\* one caller at a time: the requests are served one after the other
NextIce == IceStep(1)

SpecIce == InitIce /\ [][NextIce]_vars

-----------------------------------------------------------------------------
(* Specification SpecIceShared: two requests call _translate on the same   *)
(* IceG2PTranslator, their steps interleaved in any order; transcribe      *)
(* returns.                                                                *)

\* the texts of the two requests: one that is transcribed, one that is not
SharedTexts == {<<"B", "a">>, <<".">>}

SharedStep(p) ==
    \/ ICE_CallWith(p, SharedTexts)
    \/ ICE_Strip(p)
    \/ ICE_Save(p)
    \/ ICE_Clear(p)
    \/ ICE_Transcribe(p)
    \/ ICE_Restore(p)
    \/ ICE_Return(p)
    \/ ICE_Done(p)

NextIceShared == \E p \in Callers : SharedStep(p)

SpecIceShared == InitIce /\ [][NextIceShared]_vars

-----------------------------------------------------------------------------
(* GrammatekNormalizer.normalize.  The input is a document: words, phoneme *)
(* elements of one, two or three words, '.' marks and sentence breaks.  In *)
(* SSML mode the SSML parser gives one Word per word or phoneme element;   *)
(* the normalization service gives, per sentence, one token per word and   *)
(* per mark, in input order.                                               *)

PlainWord(w) == [k |-> "plain", words |-> <<w>>, phones |-> <<>>]
Phoneme(ws, ps) == [k |-> "phoneme", words |-> ws, phones |-> ps]

Elements ==
    { PlainWord(<<"dh">>), PlainWord(<<"B">>),
      Phoneme(<< <<"a">> >>, << <<"h">> >>),
      Phoneme(<< <<"a">>, <<"B">> >>, << <<"h">>, <<"a">> >>),
      Phoneme(<< <<"a">>, <<"B">>, <<"a">> >>, << <<"th">>, <<"a">>, <<"h">> >>),
      [k |-> "mark", words |-> << <<".">> >>, phones |-> <<>>],
      [k |-> "break", words |-> <<>>, phones |-> <<>>] }

MaxDoc == 3

\* " ".join(words)
JoinWords(ws) == Concat([i \in 1..Len(ws) |-> IF i = 1 THEN ws[i] ELSE <<" ">> \o ws[i]])

\* SSMLProps.is_multi(): the tag spans more than one word
IsMulti(words) == Len(words) > 1

\* OldSSMLParser.get_words(): the Words of the elements that are spoken
ParsedWords(doc) ==
    LET spoken == SelectSeq(doc, LAMBDA e : e.k \in {"plain", "phoneme"})
    IN  [i \in 1..Len(spoken) |->
            MkWord(JoinWords(spoken[i].words), JoinWords(spoken[i].words), spoken[i].phones,
                   0, 0,
                   SsmlProps(IF spoken[i].k = "phoneme" THEN "phoneme" ELSE "speak",
                             IsMulti(spoken[i].words)))]

\* the text the service gives as normalized for a token
NormalizedToken(w) == Lower(w)

\* the number of spoken elements among the first n elements of the document
SpokenBefore(doc, n) == Cardinality({i \in 1..n : doc[i].k \in {"plain", "phoneme"}})

\* the tokens of element n of the document; pw is the parsed Word a token is part
\* of (0 for a mark), kept to state the claims
ElementTokens(doc, n) ==
    [i \in 1..Len(doc[n].words) |->
        [original |-> doc[n].words[i],
         normalized |-> NormalizedToken(doc[n].words[i]),
         pw |-> IF doc[n].k = "mark" THEN 0 ELSE SpokenBefore(doc, n)]]

RECURSIVE SentencesFrom(_, _, _)
\* response.sentence: the tokens of the elements from n on, cut at the breaks
SentencesFrom(doc, n, cur) ==
    IF n > Len(doc) THEN (IF cur = <<>> THEN <<>> ELSE <<cur>>)
    ELSE IF doc[n].k = "break"
    THEN (IF cur = <<>> THEN <<>> ELSE <<cur>>) \o SentencesFrom(doc, n + 1, <<>>)
    ELSE SentencesFrom(doc, n + 1, cur \o ElementTokens(doc, n))

\* the text of the request: in SSML mode the markup, "<" standing for a tag
RenderDoc(doc, ssml) ==
    LET tag == IF ssml THEN <<"<">> ELSE <<>>
        body(e) == IF e.k = "phoneme" THEN tag \o JoinWords(e.words) \o tag
                   ELSE JoinWords(e.words)
        sep(i) == IF i = 1 \/ doc[i].k \in {"mark", "break"} THEN <<>> ELSE <<" ">>
    IN  tag \o Concat([i \in 1..Len(doc) |-> sep(i) \o body(doc[i])]) \o tag

RECURSIVE LeadingSkipped(_, _)
\* the leading characters of text that are whitespace (in SSML mode: or tags)
LeadingSkipped(text, ssml) ==
    IF text # <<>> /\ (Head(text) \in Whitespace \/ (ssml /\ Head(text) = "<"))
    THEN <<Head(text)>> \o LeadingSkipped(Tail(text), ssml)
    ELSE <<>>

\* consume_whitespace(text, ssml): (n_chars_whitespace, n_bytes_whitespace)
consume_whitespace(text, ssml) ==
    LET skipped == LeadingSkipped(text, ssml)
    IN  [chars |-> Len(skipped), bytes |-> utf8_byte_length(skipped)]

\* the translator and alphabet of the synthesizer the normalizer feeds
PipelineChain == <<"lexA", "ice">>
PipelineAlphabet == "ipa"

InitNormalize ==
    /\ gn_pc = "loop"
    /\ gn_doc \in SeqsUpTo(Elements, MaxDoc)
    /\ gn_ssml \in BOOLEAN
    /\ gn_parsed = ParsedWords(gn_doc)
    /\ gn_sents = SentencesFrom(gn_doc, 1, <<>>)
    /\ gn_view = RenderDoc(gn_doc, gn_ssml)
    /\ gn_bytes = 0
    /\ gn_p_idx = 0
    /\ gn_s = 1
    /\ gn_t = 1
    /\ gn_out = <<>>
    /\ gn_src = <<>>
    /\ gn_phon = <<>>
    /\ IdleEmbedded /\ IdleComposed /\ IdleWords /\ IdleTokenize /\ IdleIce
    /\ IdleLexicon /\ IdleVersion /\ IdleSynth

\* the tokens next(islice(sent_iter, skip_length)) takes from the iterator: the
\* first element of the slice, and no more
Skipped(skip_length) == IF skip_length >= 1 THEN 1 ELSE 0

\* n_bytes_consumed after the whitespace before the token is counted: the start
\* offset of the Word, without the whitespace
StartOffsetNoWhitespace(consumed, n_bytes_whitespace) == consumed

\* n_bytes_consumed after the whitespace before the token is counted: the start
\* offset of the Word
StartOffset(consumed, n_bytes_whitespace) == consumed + n_bytes_whitespace

\* one iteration of the inner loop of normalize: a token pair is taken from
\* sent_iter, a Word is yielded, the view and the cursors advance
GN_Token ==
    /\ gn_pc = "loop"
    /\ gn_s <= Len(gn_sents)
    /\ gn_t <= Len(gn_sents[gn_s])
    /\ LET tok == gn_sents[gn_s][gn_t]
           spoken_ssml == gn_ssml /\ IsSpoken(MkWord(tok.original, <<>>, <<>>, 0, 0, NoSsmlProps))
           ws == consume_whitespace(gn_view, gn_ssml)
           n_bytes_consumed == StartOffset(gn_bytes, ws.bytes)
       IN  IF spoken_ssml /\ gn_p_idx >= Len(gn_parsed)
           THEN \* parsed_text[p_idx] raises IndexError
                /\ gn_pc' = "IndexError"
                /\ gn_bytes' = n_bytes_consumed
                /\ gn_t' = gn_t + 1
                /\ UNCHANGED <<gn_view, gn_p_idx, gn_out, gn_src, gn_phon>>
           ELSE LET parsed == gn_parsed[gn_p_idx + 1]
                    phoneme_multi == /\ spoken_ssml
                                     /\ parsed.ssml_props.tag_type = "phoneme"
                                     /\ parsed.ssml_props.multi
                    original == IF phoneme_multi THEN parsed.original_symbol ELSE tok.original
                    token_byte_len == utf8_byte_length(original)
                    word == MkWord(original, tok.normalized,
                                   IF spoken_ssml THEN parsed.phone_sequence ELSE <<>>,
                                   n_bytes_consumed, n_bytes_consumed + token_byte_len,
                                   NoSsmlProps)
                    skip_length == Len(SplitWs(original))
                    left == Len(gn_sents[gn_s]) - gn_t
                    text_view == SubSeq(gn_view, ws.chars + Len(original) + 1, Len(gn_view))
                IN  /\ gn_out' = Append(gn_out, word)
                    /\ gn_src' = Append(gn_src,
                           [pw |-> tok.pw, p |-> IF spoken_ssml THEN gn_p_idx + 1 ELSE 0,
                            s |-> gn_s, t |-> gn_t,
                            skipped |-> LeadingSkipped(gn_view, gn_ssml),
                            before |-> gn_view, rest |-> text_view])
                    /\ gn_bytes' = n_bytes_consumed + token_byte_len
                    /\ gn_view' = text_view
                    /\ gn_p_idx' = IF spoken_ssml THEN gn_p_idx + 1 ELSE gn_p_idx
                    /\ IF phoneme_multi
                       THEN IF left >= 1 /\ Skipped(skip_length) >= 1
                            THEN /\ gn_t' = gn_t + 1 + Skipped(skip_length)
                                 /\ gn_pc' = "yielded"
                            ELSE \* next() of an empty slice: StopIteration in a generator
                                 /\ gn_t' = gn_t + 1
                                 /\ gn_pc' = "RuntimeError"
                       ELSE /\ gn_t' = gn_t + 1
                            /\ gn_pc' = "yielded"
                    /\ UNCHANGED gn_phon
    /\ UNCHANGED <<gn_doc, gn_ssml, gn_parsed, gn_sents, gn_s, otherGn>>

\* the tokens of the sentence are exhausted: yield WORD_SENTENCE_SEPARATOR
GN_SentenceEnd ==
    /\ gn_pc = "loop"
    /\ gn_s <= Len(gn_sents)
    /\ gn_t > Len(gn_sents[gn_s])
    /\ gn_out' = Append(gn_out, WORD_SENTENCE_SEPARATOR)
    /\ gn_src' = Append(gn_src, [pw |-> 0, p |-> 0, s |-> gn_s, t |-> 0,
                                  skipped |-> <<>>, before |-> gn_view, rest |-> gn_view])
    /\ gn_s' = gn_s + 1
    /\ gn_t' = 1
    /\ gn_pc' = "yielded"
    /\ UNCHANGED <<gn_doc, gn_ssml, gn_parsed, gn_sents, gn_view, gn_bytes, gn_p_idx,
                   gn_phon, otherGn>>

\* translate_words takes the Word normalize yielded and yields it in its turn
GN_Phonetize ==
    /\ gn_pc = "yielded"
    /\ gn_phon' = Append(gn_phon,
                         TranslateWord(gn_out[Len(gn_out)], PipelineChain, PipelineAlphabet))
    /\ gn_pc' = "loop"
    /\ UNCHANGED <<gn_doc, gn_ssml, gn_parsed, gn_sents, gn_view, gn_bytes, gn_p_idx,
                   gn_s, gn_t, gn_out, gn_src, otherGn>>

\* the sentences are exhausted: the generator ends
GN_Done ==
    /\ gn_pc = "loop"
    /\ gn_s > Len(gn_sents)
    /\ gn_pc' = "done"
    /\ UNCHANGED <<gn_doc, gn_ssml, gn_parsed, gn_sents, gn_view, gn_bytes, gn_p_idx,
                   gn_s, gn_t, gn_out, gn_src, gn_phon, otherGn>>

NextNormalize == GN_Token \/ GN_SentenceEnd \/ GN_Phonetize \/ GN_Done

SpecNormalize == InitNormalize /\ [][NextNormalize]_vars

-----------------------------------------------------------------------------
(* LexiconGraphemeToPhonemeTranslator._translate, called once on a word *)

MaxLexWord == 2

LexiconTranslators == {"lexA", "lexB", "lexC"}
LexLetters == {"a", "b", "A", "B"}

InitLexicon ==
    /\ lx_pc = "call"
    /\ lx_tr \in LexiconTranslators
    /\ lx_w \in SeqsUpTo(LexLetters, MaxLexWord)
    /\ lx_alphabet \in Alphabets
    /\ lx_phones = <<>>
    /\ IdleEmbedded /\ IdleComposed /\ IdleWords /\ IdleTokenize /\ IdleIce
    /\ IdleNormalize /\ IdleVersion /\ IdleSynth

\* _translate(w, lang, alphabet) runs and returns phones
LX_Translate ==
    /\ lx_pc = "call"
    /\ lx_phones' = LexiconTranslate(lx_tr, lx_w, lx_alphabet)
    /\ lx_pc' = "returned"
    /\ UNCHANGED <<lx_tr, lx_w, lx_alphabet, otherLx>>

NextLexicon == LX_Translate

SpecLexicon == InitLexicon /\ [][NextLexicon]_vars

-----------------------------------------------------------------------------
(* version_hash of the translators.  A file is the sequence of its bytes;  *)
(* a digest is what hash_from_impl returns.                                *)

MaxFileBytes == 1

Bytes == {"0", "1"}

\* what is given to hash_from_impl: bytes, followed by digests written as text
Content(bytes, digests) == [bytes |-> bytes, digests |-> digests]

\* hash_from_impl(cls, content): equal for equal arguments, and taken to differ
\* for different ones
hash_from_impl(cls, content) == [cls |-> cls, content |-> content]

\* the separator of "-".join, a text no digest holds
Dash == [cls |-> "-", content |-> Content(<<>>, <<>>)]

\* a join that keeps the first hash only
JoinFirst(hs) == <<hs[1]>>

\* "-".join(t.version_hash for t in self._translators)
JoinDash(hs) ==
    [n \in 1..(2 * Len(hs) - 1) |-> IF n % 2 = 1 THEN hs[(n + 1) \div 2] ELSE Dash]

\* LexiconGraphemeToPhonemeTranslator.__init__: the hash of lexicon.read_bytes()
LexiconVersionHash(bytes) ==
    hash_from_impl("LexiconGraphemeToPhonemeTranslator", Content(bytes, <<>>))

\* the version_hash of the translators of ComposedTranslator c, in their order
ChildHashes(c) == [k \in 1..Len(vh_children[c]) |-> vh_lex[vh_children[c][k]][1]]

MaxReads == 2

\* two lexicon files, at two paths
InitVersion ==
    /\ vh_file \in [Instances -> SeqsUpTo(Bytes, MaxFileBytes)]
    /\ vh_lex = [i \in Instances |-> <<>>]
    /\ vh_children = [c \in Instances |-> <<>>]
    /\ vh_cache = [c \in Instances |-> <<>>]
    /\ vh_reads = [c \in Instances |-> <<>>]
    /\ IdleEmbedded /\ IdleComposed /\ IdleWords /\ IdleTokenize /\ IdleIce
    /\ IdleNormalize /\ IdleLexicon /\ IdleSynth

\* LexiconGraphemeToPhonemeTranslator(lexicon=file i)
VH_Lexicon(i) ==
    /\ vh_lex[i] = <<>>
    /\ vh_lex' = [vh_lex EXCEPT ![i] = <<LexiconVersionHash(vh_file[i])>>]
    /\ UNCHANGED <<vh_file, vh_children, vh_cache, vh_reads, otherVh>>

\* ComposedTranslator(*translators), of lexicon translators
VH_Composed(c) ==
    /\ \A i \in Instances : vh_lex[i] # <<>>
    /\ vh_children[c] = <<>>
    /\ \A d \in Instances : d < c => vh_children[d] # <<>>
    /\ \E ts \in SeqsUpTo(Instances, MaxChain) \ {<<>>} :
         vh_children' = [vh_children EXCEPT ![c] = ts]
    /\ UNCHANGED <<vh_file, vh_lex, vh_cache, vh_reads, otherVh>>

\* ComposedTranslator.version_hash is read: computed when not cached yet
VH_Read(c) ==
    /\ vh_children[c] # <<>>
    /\ Len(vh_reads[c]) < MaxReads
    /\ LET hash == IF vh_cache[c] = <<>>
                   THEN hash_from_impl("ComposedTranslator",
                                       Content(<<>>, JoinDash(ChildHashes(c))))
                   ELSE vh_cache[c][1]
       IN  /\ vh_cache' = [vh_cache EXCEPT ![c] = <<hash>>]
           /\ vh_reads' = [vh_reads EXCEPT ![c] = Append(vh_reads[c], hash)]
    /\ UNCHANGED <<vh_file, vh_lex, vh_children, otherVh>>

NextVersion == \E i \in Instances : VH_Lexicon(i) \/ VH_Composed(i) \/ VH_Read(i)

SpecVersion == InitVersion /\ [][NextVersion]_vars

-----------------------------------------------------------------------------
(* Espnet2Synthesizer.__init__.  A URI is written as its parts: "zoo://m"  *)
(* is <<"zoo", "://", "m">>, "file://" is <<"file", "://">>.               *)

ModelUris ==
    { <<"zoo", "://", "m">>, <<"file", "://", "m">>, <<"file", "://">>,
      <<"http", "://", "m">> }

\* uri.startswith(scheme + "://")
StartsWithScheme(uri, scheme) == Len(uri) >= 2 /\ uri[1] = scheme /\ uri[2] = "://"

\* uri.split("://")[1], of a URI that starts with a scheme and "://"
AfterScheme(uri) == SubSeq(uri, 3, Len(uri))

\* the file at the vocoder path: not a Zip archive, or a Zip archive with its
\* .pkl member and its .yaml member, each absent or <<its bytes>>
NotZip == [zip |-> FALSE, pkl |-> <<>>, yaml |-> <<>>]
VocoderArchives ==
    { NotZip,
      [zip |-> TRUE, pkl |-> <<>>, yaml |-> << <<"0">> >>],
      [zip |-> TRUE, pkl |-> << <<"1">> >>, yaml |-> <<>>],
      [zip |-> TRUE, pkl |-> << <<"1">> >>, yaml |-> << <<"0">> >>],
      [zip |-> TRUE, pkl |-> << <<"1">> >>, yaml |-> << <<"1">> >>] }

\* vocoder_uri (<<>> for None) and the file it names
Vocoders ==
    { [uri |-> <<>>, archive |-> NotZip],
      [uri |-> <<"http", "://", "v">>, archive |-> NotZip] }
    \cup { [uri |-> <<"file", "://", "v">>, archive |-> a] : a \in VocoderArchives }

\* the bytes of model_info["model_file"]
ModelFiles == { <<"0">>, <<"0", "1">> }

\* how ModelDownloader.download_and_unpack(name_or_path) can end: it unpacks
\* the model named; given the empty name it raises, IndexError or another error
DownloadOutcomes(name_or_path) ==
    IF name_or_path = <<>> THEN {"IndexError", "OtherError"} ELSE {"ok"}

\* the normalizers: BasicNormalizer and GrammatekNormalizer, and two
\* normalizers of the caller's that have a version_hash
Normalizers == {"BasicNormalizer", "GrammatekNormalizer", "VersionedA", "VersionedB"}

\* the normalizer has an attribute version_hash
HasVersionHash(normalizer) == normalizer \notin {"BasicNormalizer", "GrammatekNormalizer"}

NormalizerVersionHash(normalizer) == hash_from_impl(normalizer, Content(<<>>, <<>>))

\* the version_hash of the phonetizer given
PhonetizerHashes == { LexiconVersionHash(<<"0">>), LexiconVersionHash(<<"1">>) }

SynthInputs ==
    { [model_uri |-> m, download |-> d, model_file |-> f, vocoder |-> v,
       phonetizer |-> p, normalizer |-> n] :
        m \in ModelUris, d \in {"ok", "IndexError", "OtherError"}, f \in ModelFiles,
        v \in Vocoders, p \in PhonetizerHashes, n \in Normalizers }

\* the arguments and surroundings of one construction
PossibleInput(in) ==
    in.download \in DownloadOutcomes(AfterScheme(in.model_uri))

\* content_to_hash: the bytes of the model file, then those of the vocoder file
ContentToHash(in) ==
    in.model_file \o (IF in.vocoder.uri # <<>> THEN in.vocoder.archive.pkl[1] ELSE <<>>)

\* __init__, from its first line to its end: how it ends, the message of its
\* ValueError, the version_hash it sets (<<>> when none) and the downloads made
Construct(in) ==
    LET Ends(how, msg, n) == [pc |-> how, msg |-> msg, hash |-> <<>>, downloads |-> n]
        given == in.vocoder.uri # <<>>
    IN  IF ~(StartsWithScheme(in.model_uri, "zoo") \/ StartsWithScheme(in.model_uri, "file"))
        THEN Ends("ValueError", "Invalid URI scheme", 0)
        ELSE IF in.download = "IndexError"
        THEN Ends("ValueError", "Missing model path or name", 1)
        ELSE IF in.download # "ok"
        THEN Ends(in.download, "", 1)
        ELSE IF given /\ ~StartsWithScheme(in.vocoder.uri, "file")
        THEN Ends("ValueError", "Unsupported URI scheme for vocoder", 1)
        ELSE IF given /\ ~in.vocoder.archive.zip
        THEN Ends("ValueError", "Vocoder must be a Zip archive", 1)
        ELSE IF given /\ (in.vocoder.archive.pkl = <<>> \/ in.vocoder.archive.yaml = <<>>)
        THEN \* [...][0] of an empty list raises IndexError
             Ends("ValueError", "Missing model path or name", 1)
        ELSE IF ~HasVersionHash(in.normalizer)
        THEN Ends("AttributeError", "", 1)
        ELSE [pc |-> "built", msg |-> "", downloads |-> 1,
              hash |-> << hash_from_impl("Espnet2Synthesizer",
                              Content(ContentToHash(in),
                                      <<in.phonetizer,
                                        NormalizerVersionHash(in.normalizer)>>)) >>]

InitSynth ==
    /\ es_in = [i \in Instances |-> <<>>]
    /\ es_pc = [i \in Instances |-> "new"]
    /\ es_msg = [i \in Instances |-> ""]
    /\ es_hash = [i \in Instances |-> <<>>]
    /\ es_downloads = [i \in Instances |-> 0]
    /\ IdleEmbedded /\ IdleComposed /\ IdleWords /\ IdleTokenize /\ IdleIce
    /\ IdleNormalize /\ IdleLexicon /\ IdleVersion

\* Espnet2Synthesizer(model_uri, vocoder_uri, phonetizer, normalizer, alphabet)
ES_Construct(i) ==
    /\ es_pc[i] = "new"
    /\ \A j \in Instances : j < i => es_pc[j] # "new"
    /\ \E in \in SynthInputs :
         /\ PossibleInput(in)
         /\ es_in' = [es_in EXCEPT ![i] = <<in>>]
         /\ es_pc' = [es_pc EXCEPT ![i] = Construct(in).pc]
         /\ es_msg' = [es_msg EXCEPT ![i] = Construct(in).msg]
         /\ es_hash' = [es_hash EXCEPT ![i] = Construct(in).hash]
         /\ es_downloads' = [es_downloads EXCEPT ![i] = Construct(in).downloads]
    /\ UNCHANGED otherEs

NextSynth == \E i \in Instances : ES_Construct(i)

SpecSynth == InitSynth /\ [][NextSynth]_vars

-----------------------------------------------------------------------------
(* Claims about ComposedTranslator.translate (SpecComposed) *)

\* what each translator of the chain gives for the text of the call
ChainResults == [i \in 1..Len(ct_chain) |-> EmbeddedTranslate(ct_chain[i], ct_text, ct_alphabet)]
ChainHits == {i \in 1..Len(ct_chain) : ChainResults[i] # <<>>}
FirstHit == CHOOSE i \in ChainHits : \A j \in ChainHits : i <= j
UpTo(n) == [i \in 1..n |-> i]

\* C1: translate returns exactly the result of the lowest-index translator whose
\* result is non-empty, has called the translators up to that one and no later
\* one, and returns the empty sequence (after calling all) when every result is empty.
C1_FirstMatchWins ==
    ct_pc \in {"return", "returned"} =>
        IF ChainHits = {}
        THEN ct_phone = <<>> /\ ct_calls = UpTo(Len(ct_chain))
        ELSE ct_phone = ChainResults[FirstHit] /\ ct_calls = UpTo(FirstHit)

\* a call returned the second translator's result after the first gave nothing
C1_Witness ==
    /\ ct_pc = "returned"
    /\ Len(ct_chain) = 2
    /\ ChainResults[1] = <<>>
    /\ ChainResults[2] # <<>>
    /\ ct_phone = ChainResults[2]

-----------------------------------------------------------------------------
(* Claims about EmbeddedPhonemeTranslatorBase.translate (SpecEmbedded) *)

\* a text of words, one brace span and marks: every word and span is set off by a
\* space from what precedes it (a mark needs none)
WordsSpanMarks(items) ==
    /\ Cardinality({i \in 1..Len(items) : items[i].k = "span"}) = 1
    /\ \A i \in 2..Len(items) : items[i].k \in {"word", "span"} => items[i].sp

\* the phones an item stands for with alphabet ipa
ItemPhonesIpa(it, t) ==
    IF it.k = "word" THEN WordTranslate(t, it.v, "ipa")
    ELSE IF it.k = "span" THEN [i \in 1..Len(it.v) |-> <<it.v[i]>>]
    ELSE <<SHORT_PAUSE>>

\* C2: for a text of ordinary words, one brace span and '.' / ',' marks, translate
\* with alphabet ipa returns, in input order, _translate of each word, the phones of
\* the span verbatim and one short pause per mark.
C2_EmbeddedConcatenation ==
    (e_pc = "done" /\ e_alphabet = "ipa" /\ WordsSpanMarks(e_items)) =>
        e_result = Concat([i \in 1..Len(e_items) |-> ItemPhonesIpa(e_items[i], e_tr)])

\* "B {th a}." was translated by the model-backed translator
C2_Witness ==
    /\ e_pc = "done"
    /\ e_alphabet = "ipa"
    /\ e_tr = "ice"
    /\ e_items = << [k |-> "word", v |-> <<"B">>, sp |-> FALSE],
                    [k |-> "span", v |-> <<"th", "a">>, sp |-> TRUE],
                    [k |-> "mark", v |-> <<".">>, sp |-> FALSE] >>
    /\ e_result = << <<"p">>, <<"th">>, <<"a">>, SHORT_PAUSE >>

-----------------------------------------------------------------------------
(* Claims about translate_words (SpecWords) *)

\* the Words of the input taken from the stream so far
Taken == 1..(tw_i - 1)
\* the position in the output of the yield of input Word i
YieldsOf(i) == {j \in 1..Len(tw_src) : tw_src[j] = i}

\* C3: G2P is run on a Word iff it is not the sentence separator and it is not from
\* markup or its tag is not 'phoneme'; a Word that is not translated is yielded with
\* its phone_sequence (and all else) unchanged; every input Word is yielded exactly
\* once, in input order.
C3_TranslateIff ==
    /\ \A i \in Taken :
         LET w == tw_words[i]
         IN  /\ i \in tw_translated <=>
                   (w # WORD_SENTENCE_SEPARATOR
                    /\ (~IsFromSsml(w) \/ w.ssml_props.tag_type # "phoneme"))
             /\ Cardinality(YieldsOf(i)) = 1
             /\ \A j \in YieldsOf(i) :
                  /\ i \notin tw_translated => tw_out[j] = w
                  /\ i \in tw_translated =>
                       tw_out[j] = [w EXCEPT !.phone_sequence =
                                       TranslateSymbol(tw_chain, w.symbol, tw_alphabet)]
    /\ SelectSeq(tw_src, LAMBDA x : x # 0) = UpTo(tw_i - 1)

\* a stream with a phoneme-tag Word that kept its phones and a plain Word that was
\* translated has been run through
C3_Witness ==
    /\ tw_pc = "done"
    /\ Len(tw_words) = 2
    /\ tw_words[1].ssml_props.tag_type = "phoneme"
    /\ tw_words[1].phone_sequence # <<>>
    /\ tw_out[1] = tw_words[1]
    /\ ~IsFromSsml(tw_words[2])
    /\ tw_words[2] # WORD_SENTENCE_SEPARATOR
    /\ tw_translated = {2}

-----------------------------------------------------------------------------
(* Claims about the plain-text tokenizer (SpecTokenize) *)

\* the Word at position j of the output was built from several tokens
FromSeveralTokens(j) == tk_src[j][1] < tk_src[j][2]

\* C4: every Word emitted has start_byte_offset <= end_byte_offset, and the offsets
\* do not decrease along the stream: each Word starts at or after the start and the
\* end of the Word before it, Words built from a brace span included.
C4_OffsetsMonotonic ==
    /\ \A j \in 1..Len(tk_out) : tk_out[j].start_byte_offset <= tk_out[j].end_byte_offset
    /\ \A j \in 2..Len(tk_out) :
         /\ tk_out[j].start_byte_offset >= tk_out[j - 1].start_byte_offset
         /\ tk_out[j].start_byte_offset >= tk_out[j - 1].end_byte_offset

\* a Word built from a brace span of several tokens was emitted after another Word
C4_Witness ==
    /\ tk_pc = "done"
    /\ Len(tk_out) = 2
    /\ FromSeveralTokens(2)
    /\ tk_out[1].end_byte_offset > 0
    /\ tk_out[2].start_byte_offset > tk_out[1].end_byte_offset

\* the UTF-8 bytes of a str: one element per byte
Utf8Bytes(s) ==
    Concat([i \in 1..Len(s) |-> [b \in 1..CharBytes(s[i]) |-> <<s[i], b>>]])

\* C5: for every Word emitted, the bytes [start_byte_offset, end_byte_offset) of the
\* input are the UTF-8 bytes of the Word's original_symbol.
C5_SpanReproducesOriginal ==
    \A j \in 1..Len(tk_out) :
        SubSeq(Utf8Bytes(tk_text), tk_out[j].start_byte_offset + 1, tk_out[j].end_byte_offset)
            = Utf8Bytes(tk_out[j].original_symbol)

\* the text of the input from the first to the last token a Word was built from
BracketedText(j) ==
    Strip(Concat([k \in 1..(tk_src[j][2] - tk_src[j][1] + 1) |->
                     tk_offsets[tk_src[j][1] + k - 1].tok.original]))

StrippedOf(i) == Strip(tk_offsets[i].tok.original)
\* the entries of the offsets list that are not sentence ends
TextEntries == {i \in 1..Len(tk_offsets) : tk_offsets[i].tok.kind # "S_END"}
\* the state of the scanner before entry i was processed
OpenBefore(i) == IF i = 1 THEN FALSE ELSE tk_hist[i - 1]

KeptSentenceEnds == {i \in 1..Len(tk_offsets) : tk_offsets[i].tok.kind = "S_END"}

\* C7: every sentence-end marker kept by add_token_offsets is in the output of
\* _tokenize as the SentenceSeparator sentinel.
C7_SentenceEndsEmitted ==
    tk_pc = "done" =>
        Cardinality({j \in 1..Len(tk_out) : tk_out[j] = WORD_SENTENCE_SEPARATOR})
            = Cardinality(KeptSentenceEnds)

-----------------------------------------------------------------------------
(* Claims about IceG2PTranslator._translate (SpecIce) *)

\* C8: for a call with an alphabet other than x-sampa+syll+stress, syllab_symbol is
\* empty while transcribe runs, and has its pre-call value once _translate has
\* ended, whether transcribe returned or raised.
C8_SyllabRestored ==
    \A p \in Callers :
        ice_alphabet[p] # "x-sampa+syll+stress" =>
            /\ ice_pc[p] = "transcribe" => ice_syllab = <<>>
            /\ ice_pc[p] \in {"returned", "raised"} => ice_syllab = ice_pre[p]


-----------------------------------------------------------------------------
(* Claims about GrammatekNormalizer.normalize (SpecNormalize) *)

\* the emitted Words that pair a spoken service token with a parsed Word
Paired == {j \in 1..Len(gn_src) : gn_src[j].p # 0}

\* emitted Word j pairs a token with the parsed Word the token is part of
InStep(j) == gn_src[j].pw = gn_src[j].p

\* the emitted Words that pair the first token of a phoneme span of several
\* words with the parsed Word of that span
SpanStarts ==
    {j \in Paired : /\ InStep(j)
                    /\ gn_parsed[gn_src[j].p].ssml_props.tag_type = "phoneme"
                    /\ gn_parsed[gn_src[j].p].ssml_props.multi}

\* C9: in SSML mode a phoneme span of several words gives exactly one Word, whose
\* original_symbol is the text of the whole span, and takes exactly the service
\* tokens of the span: no further Word is emitted for a token of the span, and
\* the next Word that pairs a token with a parsed Word pairs the first token
\* after the span with the next parsed Word.
C9_SpanConsumesItsTokens ==
    \A j \in SpanStarts :
        /\ gn_out[j].original_symbol = gn_parsed[gn_src[j].p].original_symbol
        /\ \A m \in 1..Len(gn_src) : m # j => gn_src[m].pw # gn_src[j].p
        /\ \A m \in Paired : (m > j /\ \A n \in Paired : ~(j < n /\ n < m)) =>
               /\ InStep(m)
               /\ gn_src[m].p = gn_src[j].p + 1

\* the emitted Words that pair a spoken token with the parsed Word it is part of,
\* that Word being one of a phoneme tag, and that translate_words has taken
PhonemeWords ==
    {j \in Paired : /\ InStep(j)
                    /\ gn_parsed[gn_src[j].p].ssml_props.tag_type = "phoneme"
                    /\ j <= Len(gn_phon)}

\* C10: a spoken service token whose parsed Word carries the phone sequence of a
\* phoneme tag gives a Word with exactly that phone sequence, and the Word leaves
\* translate_words with that phone sequence: it is not translated again.
C10_PhonesSurviveTranslateWords ==
    \A j \in PhonemeWords :
        /\ gn_out[j].phone_sequence = gn_parsed[gn_src[j].p].phone_sequence
        /\ ~ShouldTranslate(gn_out[j])
        /\ gn_phon[j].phone_sequence = gn_parsed[gn_src[j].p].phone_sequence

\* the emitted Words that are the sentinel
Sentinels == {j \in 1..Len(gn_out) : gn_out[j] = WORD_SENTENCE_SEPARATOR}

\* the generator has ended, by returning or by raising
GnEnded == gn_pc \in {"done", "IndexError", "RuntimeError"}

\* sentences and tokens are emitted in the order of the response, and the
\* sentinel of sentence i comes after the Words of sentence i and before those
\* of sentence i + 1
C11_InOrder ==
    /\ \A j \in 1..Len(gn_src) :
           Cardinality({m \in Sentinels : m < j}) = gn_src[j].s - 1
    /\ \A i, j \in 1..Len(gn_src) :
           (i < j /\ gn_src[i].s = gn_src[j].s /\ j \notin Sentinels) =>
               gn_src[i].t < gn_src[j].t
    /\ \A j \in Sentinels : gn_src[j].t = 0

\* C11: for a response of n sentences the stream of normalize holds exactly n
\* sentinels, the i-th after all Words of sentence i and before any Word of
\* sentence i + 1, and ends with a sentinel; sentences and tokens come in the
\* order of the response.
C11_SentinelPerSentence ==
    /\ C11_InOrder
    /\ GnEnded =>
          /\ Cardinality(Sentinels) = Len(gn_sents)
          /\ Len(gn_sents) > 0 => Len(gn_out) \in Sentinels

\* the emitted Words that come from a pair of the response
PairWords == (1..Len(gn_out)) \ Sentinels

\* the pair emitted Word j comes from
PairOf(j) == gn_sents[gn_src[j].s][gn_src[j].t]

\* emitted Word j comes from the first token of a phoneme span of several words
\* (as normalize sees it: by the parsed Word it pairs the token with)
OfMultiSpan(j) ==
    /\ gn_src[j].p # 0
    /\ gn_parsed[gn_src[j].p].ssml_props.tag_type = "phoneme"
    /\ gn_parsed[gn_src[j].p].ssml_props.multi

\* the originals of the pairs the emitted Words come from (none for a sentinel)
PairOriginals ==
    [j \in 1..Len(gn_out) |-> IF j \in Sentinels THEN <<>> ELSE PairOf(j).original]

\* the texts normalize takes as the originals of the emitted Words
TakenOriginals ==
    [j \in 1..Len(gn_out) |->
        IF j \in Sentinels THEN <<>>
        ELSE IF OfMultiSpan(j) THEN gn_parsed[gn_src[j].p].original_symbol
        ELSE PairOf(j).original]

RECURSIVE BytesThrough(_, _)
\* the bytes of the whitespace skipped and of the originals orig[m] of the
\* emitted Words 1..j
BytesThrough(j, orig) ==
    IF j = 0 THEN 0
    ELSE BytesThrough(j - 1, orig)
         + (IF j \in Sentinels THEN 0
            ELSE utf8_byte_length(gn_src[j].skipped) + utf8_byte_length(orig[j]))

\* the remaining-text view after n characters are cut from its front
CutFront(view, n) == SubSeq(view, n + 1, Len(view))

\* the bookkeeping of normalize, with orig[j] as the original of Word j
Bookkeeping(orig) ==
    \A j \in PairWords :
        /\ gn_out[j].symbol = PairOf(j).normalized
        /\ gn_out[j].original_symbol = orig[j]
        /\ gn_out[j].start_byte_offset =
               BytesThrough(j - 1, orig) + utf8_byte_length(gn_src[j].skipped)
        /\ gn_out[j].end_byte_offset =
               gn_out[j].start_byte_offset + utf8_byte_length(orig[j])
        /\ \A m \in PairWords :
               m < j => gn_out[j].start_byte_offset >= gn_out[m].end_byte_offset
        /\ gn_src[j].rest =
               CutFront(gn_src[j].before, Len(gn_src[j].skipped) + Len(orig[j]))

\* C12 as stated: every Word emitted for an (original, normalized) pair has
\* symbol = normalized and original_symbol = original, starts at the bytes of
\* all whitespace and originals consumed so far, ends the bytes of original
\* later, starts no earlier than the Word before it ended, and the view is
\* advanced by the skipped whitespace plus the characters of original.
C12_WordMirrorsPair == Bookkeeping(PairOriginals)

\* C12, amended: the same, where for the first token of a phoneme span of
\* several words (SSML mode) the text of the whole span, taken from the parsed
\* Word, stands for original in original_symbol, in the offsets and in the
\* advance of the view; in every other case original is the token's original.
C12_WordMirrorsOriginal == Bookkeeping(TakenOriginals)

C12_Witness ==
    \E j, m \in PairWords :
        /\ j < m
        /\ OfMultiSpan(j)
        /\ gn_out[j].original_symbol # PairOf(j).original
        /\ gn_src[m].skipped # <<>>
        /\ gn_out[m].start_byte_offset > gn_out[j].end_byte_offset

-----------------------------------------------------------------------------
(* Claims about LexiconGraphemeToPhonemeTranslator._translate (SpecLexicon) *)

\* the IPA phones the lexicon holds for w: the entry of w itself when there is
\* one, otherwise the entry of w.lower(), otherwise none
EntryFor(t, w) ==
    IF w \in DOMAIN Lexicon(t) THEN Lexicon(t)[w]
    ELSE IF Lower(w) \in DOMAIN Lexicon(t) THEN Lexicon(t)[Lower(w)]
    ELSE <<>>

\* IPA phones in the target alphabet
InAlphabet(phones, alphabet) ==
    [i \in 1..Len(phones) |->
        IF alphabet = "ipa" THEN phones[i]
        ELSE IF alphabet = "x-sampa" THEN IpaToXsampa(phones[i])
        ELSE StressOf(IpaToXsampa(phones[i]))]

\* C13: _translate(w) returns the lexicon entry of w itself when there is one,
\* otherwise that of w.lower() when there is one, otherwise the empty sequence
\* whatever the alphabet; the alphabet conversion is applied to the phones that
\* were looked up, never to the key.
C13_LexiconLookup ==
    lx_pc = "returned" =>
        /\ lx_phones = InAlphabet(EntryFor(lx_tr, lx_w), lx_alphabet)
        /\ (lx_w \notin DOMAIN Lexicon(lx_tr) /\ Lower(lx_w) \notin DOMAIN Lexicon(lx_tr))
               => lx_phones = <<>>

C13_Witness ==
    /\ lx_pc = "returned"
    /\ lx_w \in DOMAIN Lexicon(lx_tr)
    /\ Lower(lx_w) \in DOMAIN Lexicon(lx_tr)
    /\ Lower(lx_w) # lx_w
    /\ lx_alphabet = "x-sampa"
    /\ lx_phones = << <<"T">> >>

-----------------------------------------------------------------------------
(* Further claims about translate_words (SpecWords) *)

\* the translators of the chain whose translate gives phones for a text
HitsOf(chain, text, alphabet) ==
    {m \in 1..Len(chain) : EmbeddedTranslate(chain[m], text, alphabet) # <<>>}

\* the phones of the first translator of the chain that gives any, if one does
FirstResult(chain, text, alphabet) ==
    IF HitsOf(chain, text, alphabet) = {} THEN <<>>
    ELSE LET m == CHOOSE n \in HitsOf(chain, text, alphabet) :
                      \A o \in HitsOf(chain, text, alphabet) : n <= o
         IN  EmbeddedTranslate(chain[m], text, alphabet)

\* the Word translate_words yielded for input Word i
YieldOf(i) == tw_out[CHOOSE j \in 1..Len(tw_src) : tw_src[j] = i]

\* C14: with a ComposedTranslator, a text an earlier translator misses goes to
\* the next translator of the chain; when every translator misses every text of
\* a Word, no error is raised and the Word is yielded with an empty
\* phone_sequence; the other Words are translated as they are on their own.
C14_MissFallsThrough ==
    /\ tw_pc \in {"idle", "run", "done"}
    /\ \A c \in 1..Len(tw_calls) :
          LET texts == tw_calls[c].texts
              out == YieldOf(tw_calls[c].i)
          IN  /\ Cardinality(YieldsOf(tw_calls[c].i)) = 1
              /\ out.phone_sequence =
                     Concat([k \in 1..Len(texts) |->
                                FirstResult(tw_chain, texts[k], tw_alphabet)])
              /\ (\A k \in 1..Len(texts) : HitsOf(tw_chain, texts[k], tw_alphabet) = {})
                     => out.phone_sequence = <<>>

\* "a\" is missed by both lexicons, "a.B" is not: 'a' is found by the first,
\* 'B' by the second only
C14_Witness ==
    /\ tw_pc = "done"
    /\ tw_chain = <<"lexA", "lexB">>
    /\ tw_alphabet = "ipa"
    /\ Len(tw_words) = 2
    /\ tw_words[1].symbol = <<"a", "\\">>
    /\ tw_translated = {1, 2}
    /\ tw_out[1].phone_sequence = <<>>
    /\ tw_out[2].phone_sequence = << <<"a">>, SHORT_PAUSE, <<"p">>, <<"dh">> >>

\* the punctuation characters C15 speaks of: every punctuation character but
\* the braces and brackets
SurroundedCharacters == StringPunctuation \ {"{", "}", "[", "]"}

\* text holds none of the characters cs
HoldsNone(text, cs) == \A n \in 1..Len(text) : text[n] \notin cs

\* C15: for a Word that is translated, every punctuation character of the symbol
\* but '{', '}', '[', ']' is set apart, translate is called once on each of the
\* resulting pieces (a punctuation character is a piece of its own), and
\* phone_sequence becomes the results joined from left to right, whatever the
\* Word's phone_sequence was before.
C15_PunctuationApart ==
    /\ \A i \in tw_translated : Cardinality({c \in 1..Len(tw_calls) : tw_calls[c].i = i}) = 1
    /\ \A c \in 1..Len(tw_calls) :
          LET texts == tw_calls[c].texts
              word == tw_words[tw_calls[c].i]
          IN  /\ tw_calls[c].i \in tw_translated
              /\ Concat(texts) = word.symbol
              /\ \A k \in 1..Len(texts) :
                     /\ texts[k] # <<>>
                     /\ \/ Len(texts[k]) = 1 /\ texts[k][1] \in SurroundedCharacters
                        \/ HoldsNone(texts[k], SurroundedCharacters)
                     /\ (k > 1 /\ HoldsNone(texts[k], SurroundedCharacters))
                            => ~HoldsNone(texts[k - 1], SurroundedCharacters)
              /\ YieldOf(tw_calls[c].i).phone_sequence =
                     Concat([k \in 1..Len(texts) |->
                                ComposedTranslate(tw_chain, texts[k], tw_alphabet)])

\* the positions of the output that hold a marker Word
Markers == {j \in 1..Len(tw_src) : tw_src[j] = 0}

\* C16: with alphabet x-sampa+syll+stress exactly one marker Word, with
\* phone_sequence ['.'], comes right after each spoken input Word and after no
\* other Word; with any other alphabet there is no marker Word and the output
\* has the length and order of the input.
C16_MarkerAfterSpoken ==
    /\ \A j \in Markers :
          /\ tw_alphabet = "x-sampa+syll+stress"
          /\ tw_out[j].phone_sequence = << <<".">> >>
          /\ tw_out[j].symbol = <<>>
          /\ j > 1 /\ (j - 1) \notin Markers
          /\ IsSpoken(tw_words[tw_src[j - 1]])
    /\ \A j \in (1..Len(tw_src)) \ Markers :
          (tw_alphabet = "x-sampa+syll+stress" /\ IsSpoken(tw_words[tw_src[j]]))
              <=> (j + 1) \in Markers
    /\ tw_alphabet # "x-sampa+syll+stress" => tw_src = UpTo(tw_i - 1)
    /\ SelectSeq(tw_src, LAMBDA x : x # 0) = UpTo(tw_i - 1)

\* a stream of a punctuation Word and a spoken Word was run with the stress
\* alphabet: one marker, after the spoken Word
C16_Witness ==
    /\ tw_pc = "done"
    /\ tw_alphabet = "x-sampa+syll+stress"
    /\ Len(tw_words) = 2
    /\ tw_words[1].symbol = <<"!">>
    /\ tw_words[2].symbol = <<"a", ".", "B">>
    /\ tw_src = <<1, 2, 0>>
    /\ tw_out[3].phone_sequence = << <<".">> >>

-----------------------------------------------------------------------------
(* Further claims about EmbeddedPhonemeTranslatorBase.translate (SpecEmbedded) *)

\* the pieces equal to '.' or ',' that the scanner met in its closed state
ClosedMarks == {c \in 1..Len(e_log) : ~e_log[c].open /\ e_log[c].w \in {<<".">>, <<",">>}}

\* the '.' and ',' of the input text, all outside the brace spans
MarkItems == {i \in 1..Len(e_items) : e_items[i].k = "mark"}

\* a closed-state piece equal to '.' or ',' appends one element, the pause of
\* the alphabet, and is not given to _translate
C17_MarkPieces ==
    \A c \in ClosedMarks :
        /\ e_log[c].n = 1
        /\ ~e_log[c].called
        /\ e_result[e_log[c].at + 1] =
               (IF e_alphabet \in {"ipa", "x-sampa"} THEN SHORT_PAUSE ELSE <<".">>)

SetOffBySpaces == \A i \in 2..Len(e_items) : e_items[i].k # "mark" => e_items[i].sp

-----------------------------------------------------------------------------
(* Further claims about IceG2PTranslator._translate (SpecIce) *)

\* text is empty or whitespace once the punctuation other than braces and
\* brackets is taken out of it
EmptyWithoutPunctuation(text) ==
    Strip(SelectSeq(text, LAMBDA c : c \notin StringPunctuation \ {"{", "}", "[", "]"})) = <<>>

\* C18: when its input is empty, whitespace only, or so once the punctuation
\* other than braces and brackets is removed, _translate returns the empty
\* phone sequence, never calls the transcriber and never touches syllab_symbol.
C18_EmptyShortCircuits ==
    \A p \in Callers :
        (ice_pc[p] # "idle" /\ EmptyWithoutPunctuation(ice_arg[p])) =>
            /\ ice_pc[p] \in {"strip", "returned"}
            /\ ice_seen[p] = <<>>
            /\ ice_syllab = ice_pre[p]
            /\ ice_pc[p] = "returned" => ice_result[p] = <<>>

-----------------------------------------------------------------------------
(* Further claims about ComposedTranslator (SpecComposed) *)

\* C19: constructing a ComposedTranslator with no translator raises ValueError
\* at once and gives no translator: nothing is kept and translate is never
\* run; constructing it with one or more succeeds and keeps them in the order
\* given.
C19_ZeroTranslatorsRejected ==
    ct_pc # "new" =>
        /\ (Len(ct_args) = 0) <=> (ct_pc = "ValueError")
        /\ ct_pc = "ValueError" =>
              /\ ct_chain = <<>> /\ ct_calls = <<>> /\ ct_i = 0 /\ ct_phone = <<>>
              /\ ~ENABLED CT_Call
        /\ ct_pc # "ValueError" => (ct_chain = ct_args /\ Len(ct_chain) >= 1)

\* both outcomes of the constructor: here the rejection
C19_Witness == ct_pc = "ValueError" /\ ct_args = <<>>

\* C20: translating the same word twice gives the same phone sequence,
\* whatever calls, with whatever alphabets, come in between: a call that
\* returns for the text and alphabet of the first call that returned gives the
\* result that call gave.
C20_SameWordSamePhones ==
    \A p \in Callers :
        (/\ ice_pc[p] = "returned"
         /\ ice_first # <<>>
         /\ ice_first[1].text = ice_arg[p]
         /\ ice_first[1].alphabet = ice_alphabet[p])
            => ice_result[p] = ice_first[1].result

-----------------------------------------------------------------------------
(* Claims about the alphabet conversion of embedded phones (SpecEmbedded) *)

\* the pieces that gave one phone of a span covering several pieces: the piece
\* that opened the span and the pieces met in the open state
SpanPieces ==
    {i \in 1..Len(e_log) :
        \/ e_log[i].open
        \/ (StartsWith(e_log[i].w, "{") /\ ~EndsWith(e_log[i].w, "}"))}

\* the raw phone of such a piece
RawPhone(w) == ReplaceChar(ReplaceChar(w, "{", <<>>), "}", <<>>)

\* C24: a phone of a span that covers several pieces is converted to the target
\* alphabet exactly as a phone of a one-piece span is: not at all for ipa, by one
\* IPA-to-X-SAMPA conversion for x-sampa, by one such conversion and one stress
\* conversion for x-sampa+syll+stress.
C24_SpanPhonesAlike ==
    e_pc = "done" =>
        \A i \in SpanPieces :
            /\ e_log[i].n = 1
            /\ e_result[e_log[i].at + 1] = ConvertSpan(<<RawPhone(e_log[i].w)>>, e_alphabet)[1]

-----------------------------------------------------------------------------
(* Claims about texts of loose braces, spaces and marks (SpecPieces) *)

\* C29: translate never returns a phone sequence that holds an empty-string
\* phone, whatever the text: a brace standing alone as a piece, consecutive
\* spaces, a '.' after a space.
C29_NoEmptyPhone ==
    e_pc = "done" => \A i \in 1..Len(e_result) : e_result[i] # <<>>

-----------------------------------------------------------------------------
(* Claims about brace spans that are never closed (SpecTokenize) *)

\* the Words of the output whose symbol the token of entry i is part of
WordsHolding(i) == {j \in 1..Len(tk_out) : tk_src[j][1] <= i /\ i <= tk_src[j][2]}

\* C26: no token is lost by the brace scanner: when the stream has ended, every
\* token with text and a recoverable span is part of the symbol of exactly one
\* emitted Word, also when a token that starts with '{' is followed by no token
\* that ends with '}'.
C26_NoTokenLost ==
    tk_pc = "done" => \A i \in TextEntries : Cardinality(WordsHolding(i)) = 1

-----------------------------------------------------------------------------
(* Claims about the end of GrammatekNormalizer.normalize (SpecNormalize) *)

\* C27: in SSML mode, the service giving one token per word of every parsed
\* Word, normalize never indexes parsed_text at or beyond its length and never
\* runs off the end of a sentence's token iterator when it skips the tokens of
\* a phoneme span of several words.
C27_NeverRunsOff ==
    gn_ssml => gn_pc \notin {"IndexError", "RuntimeError"}

-----------------------------------------------------------------------------
(* Claims about texts of several words (SpecComposed) *)

\* the words of the text of the call, in input order
WordsOfCall == SelectSeq(ct_items, LAMBDA it : it.k = "word")

\* what the chain gives for a word on its own
WordAlone(it) == ComposedTranslate(ct_chain, it.v, ct_alphabet)

RECURSIVE IsSubsequence(_, _)
\* the elements of a are found in b, in order
IsSubsequence(a, b) ==
    IF a = <<>> THEN TRUE
    ELSE IF b = <<>> THEN FALSE
    ELSE IF Head(a) = Head(b) THEN IsSubsequence(Tail(a), Tail(b))
    ELSE IsSubsequence(a, Tail(b))

\* every word of the text is set off by spaces and known to a translator of the chain
SeveralKnownWords ==
    /\ Len(WordsOfCall) >= 2
    /\ \A i \in 1..Len(ct_items) : ct_items[i].k # "mark" => ct_items[i].sp \/ i = 1
    /\ \A i \in 1..Len(WordsOfCall) : WordAlone(WordsOfCall[i]) # <<>>

\* C25 as stated: for a text of several words, each known to some translator of
\* the chain, the result of translate holds the phones of every word, in input
\* order: a word the earlier translator misses is translated by a later one.
C25_EveryWordTranslated ==
    (ct_pc = "returned" /\ SeveralKnownWords) =>
        IsSubsequence(Concat([i \in 1..Len(WordsOfCall) |-> WordAlone(WordsOfCall[i])]),
                      ct_phone)

\* C25, amended: for such a text the result of translate is the result, for the
\* whole text, of the first translator of the chain whose result for the whole
\* text is not empty, and no later translator is called; it holds, in input
\* order, what that translator gives for each word, and nothing for a word that
\* translator misses.
C25_FirstWholeTextResult ==
    (ct_pc = "returned" /\ SeveralKnownWords) =>
        /\ ChainHits # {}
        /\ ct_phone = ChainResults[FirstHit]
        /\ ct_calls = UpTo(FirstHit)
        /\ IsSubsequence(Concat([i \in 1..Len(WordsOfCall) |->
                                    WordTranslate(ct_chain[FirstHit], WordsOfCall[i].v,
                                                  ct_alphabet)]),
                         ct_phone)

\* "a B" was translated by a chain of two lexicons: the first knows 'a' only, and
\* its result is returned
C25_Witness ==
    /\ ct_pc = "returned"
    /\ ct_chain = <<"lexA", "lexB">>
    /\ ct_alphabet = "ipa"
    /\ ct_text = <<"a", " ", "B">>
    /\ SeveralKnownWords
    /\ ct_calls = <<1>>
    /\ ct_phone = << <<"a">> >>

-----------------------------------------------------------------------------
(* Claims about two requests on one IceG2PTranslator (SpecIceShared) *)

\* the value syllab_symbol has from the construction of the transcriber
ConstructionSyllab == <<".">>

\* syllab_symbol has its construction-time value whenever no call is running, and
\* every transcribe call ran with syllable marking enabled when made for
\* x-sampa+syll+stress and suppressed when made for another alphabet
ToggleKept ==
    /\ (\A p \in Callers : ~Running(p)) => ice_syllab = ConstructionSyllab
    /\ \A p \in Callers :
          ice_seen[p] # <<>> =>
              ice_seen[p][1] = (IF ice_alphabet[p] = "x-sampa+syll+stress"
                                THEN ConstructionSyllab ELSE <<>>)

-----------------------------------------------------------------------------
(* Claims about version_hash (SpecVersion) *)

\* the ComposedTranslators whose version_hash has been read
ReadOnce == {c \in Instances : vh_reads[c] # <<>>}

\* C21: two lexicon translators have the same version_hash exactly when their
\* lexicon files hold the same bytes; the version_hash of a ComposedTranslator
\* is the same on every read, is the same for two that have the same list of
\* children's hashes, and differs for two whose lists differ.
C21_Fingerprints ==
    /\ \A i, j \in Instances :
          (vh_lex[i] # <<>> /\ vh_lex[j] # <<>>) =>
              ((vh_lex[i] = vh_lex[j]) <=> (vh_file[i] = vh_file[j]))
    /\ \A c \in ReadOnce : \A k \in 1..Len(vh_reads[c]) : vh_reads[c][k] = vh_reads[c][1]
    /\ \A c, d \in ReadOnce :
          (vh_reads[c][1] = vh_reads[d][1]) <=> (ChildHashes(c) = ChildHashes(d))

\* two files that differ in their one byte; two ComposedTranslators of the same
\* first translator and a different second one, each read twice
C21_Witness ==
    /\ vh_file = << <<"0">>, <<"1">> >>
    /\ vh_lex[1] # vh_lex[2]
    /\ vh_children = << <<1, 2>>, <<1, 1>> >>
    /\ Len(vh_reads[1]) = 2 /\ Len(vh_reads[2]) = 2
    /\ vh_reads[1][2] # vh_reads[2][2]

-----------------------------------------------------------------------------
(* Claims about Espnet2Synthesizer.__init__ (SpecSynth) *)

\* the constructions that have run, and their arguments
Constructed == {i \in Instances : es_pc[i] \notin {"idle", "new"}}
In(i) == es_in[i][1]

\* the artifacts of a construction: the model file, the vocoder's .pkl and
\* .yaml members (<<>> without a vocoder), the fingerprints of the two stages
Artifacts(i) ==
    << In(i).model_file,
       IF In(i).vocoder.uri # <<>> THEN In(i).vocoder.archive.pkl ELSE <<>>,
       IF In(i).vocoder.uri # <<>> THEN In(i).vocoder.archive.yaml ELSE <<>>,
       In(i).phonetizer,
       In(i).normalizer >>

\* the construction got past the model and the vocoder
Loaded(i) ==
    /\ i \in Constructed
    /\ es_pc[i] \notin {"ValueError", "OtherError"}

\* C22: the phonetizer and the normalizer each have a version_hash, so that a
\* construction whose model and vocoder load gives a synthesizer; and two
\* synthesizers have the same version_hash exactly when the model file, the
\* vocoder file, the vocoder config file, the phonetizer's hash and the
\* normalizer's hash are all the same.
C22_TopLevelFingerprint ==
    /\ \A i \in Instances : Loaded(i) => es_pc[i] = "built"
    /\ \A i, j \in Instances :
          (es_pc[i] = "built" /\ es_pc[j] = "built") =>
              ((es_hash[i] = es_hash[j]) <=> (Artifacts(i) = Artifacts(j)))

\* the model URI has a scheme that is accepted, and a path or name after it
ModelSchemeOk(i) ==
    StartsWithScheme(In(i).model_uri, "zoo") \/ StartsWithScheme(In(i).model_uri, "file")
ModelNamed(i) == AfterScheme(In(i).model_uri) # <<>>
VocoderGiven(i) == In(i).vocoder.uri # <<>>
VocoderSchemeOk(i) == StartsWithScheme(In(i).vocoder.uri, "file")

\* the construction ended with ValueError and this message
Reports(i, msg) == es_pc[i] = "ValueError" /\ es_msg[i] = msg

\* C23: construction ends with ValueError, and no synthesizer, when the model
\* URI has another scheme than zoo:// and file:// (no download is made then),
\* when the model path or name is missing, when the vocoder URI has another
\* scheme than file://, and when the vocoder file is not a Zip archive; each
\* message names the cause that occurred, and no download is made twice.
C23_ConfigurationErrors ==
    \A i \in Constructed :
        /\ ~ModelSchemeOk(i) => (Reports(i, "Invalid URI scheme") /\ es_downloads[i] = 0)
        /\ (ModelSchemeOk(i) /\ ~ModelNamed(i)) => Reports(i, "Missing model path or name")
        /\ (ModelSchemeOk(i) /\ ModelNamed(i) /\ VocoderGiven(i) /\ ~VocoderSchemeOk(i))
               => Reports(i, "Unsupported URI scheme for vocoder")
        /\ (ModelSchemeOk(i) /\ ModelNamed(i) /\ VocoderGiven(i) /\ VocoderSchemeOk(i)
                /\ ~In(i).vocoder.archive.zip)
               => Reports(i, "Vocoder must be a Zip archive")
        /\ Reports(i, "Invalid URI scheme") => ~ModelSchemeOk(i)
        /\ Reports(i, "Missing model path or name") => ~ModelNamed(i)
        /\ Reports(i, "Unsupported URI scheme for vocoder")
               => (VocoderGiven(i) /\ ~VocoderSchemeOk(i))
        /\ Reports(i, "Vocoder must be a Zip archive")
               => (VocoderGiven(i) /\ ~In(i).vocoder.archive.zip)
        /\ es_pc[i] = "ValueError" => es_hash[i] = <<>>
        /\ es_downloads[i] <= 1

====
